---- MODULE Spec2Model ----
(***************************************************************************)
(* MultiCoder: the coordinator / generator / validator agents, the broker  *)
(* pub/sub they talk over, and the in-process message bus.                 *)
(*                                                                         *)
(* Python values are modelled as follows.                                  *)
(*   - a dict is a function whose DOMAIN is the set of keys present;       *)
(*     d.get(k, default) is Get(d, k, default);                            *)
(*   - a request id is a string, "" being the empty string;                *)
(*   - a prompt is the sequence of its words, <<>> being the empty string; *)
(*   - a code snippet is the record of what the validator reads from its   *)
(*     text (see EmptyCode, ReverseCode, GenericCode);                     *)
(*   - `not x` on a payload field is Falsy: the key is missing (None) or   *)
(*     the value is the empty string.                                      *)
(***************************************************************************)
EXTENDS Integers, Sequences, FiniteSets, Bags, TLC

VARIABLES
    \* ---- Coordinator (src/core/agents/coordinator.py)
    pending_requests,   \* Coordinator.pending_requests: request id -> record
    \* ---- observation of the agents' handler invocations
    agent,              \* the agent whose handler was invoked last
    last,               \* the (channel, message) of the latest handler invocation
    prev,               \* pending_requests as it was when that invocation began
    out,                \* the messages that invocation published, in order
    exc,                \* the exception that invocation raised, "none" if none
    trans,              \* the status assignments that invocation made
    handled,            \* every (channel, message) handled so far, in order
    published,          \* every message published so far, in order
    \* ---- the agents over the broker (src/core/agents/base.py)
    listening,          \* the agents whose _listen loop is running
    inbox,              \* per agent, the messages its pubsub has yet to yield
    responses,          \* the messages published on multicoder:responses
    submitted,          \* the process requests clients have published
    foreign,            \* the number of messages other publishers have published
    \* ---- MessageBus (src/core/mcp/bus.py)
    subscriptions,      \* MessageBus._subscriptions: channel -> set of callbacks
    message_queue,      \* MessageBus._message_queue, oldest message first
    stop_event,         \* MessageBus._stop_event is set
    loop_task,          \* MessageBus._loop_task: a loop task, NoTask if None
    loops,              \* every loop task created so far: where it is, its tasks
    stoppers,           \* per stop call in progress, the loop task it awaits
    sent,               \* every message published on the bus, in order
    calls,              \* per callback, the calls the loops made of it, in order
    dequeued,           \* the messages the loops got from the queue, in order
    \* ---- the drivers of the in-process bus (src/demo.py, src/cli/mcp_client.py)
    demo,               \* where main and run_prompt of the demonstration are
    cli,                \* MCPClient: its wait registrations, where it is
    multicoder,         \* MultiCoderCLI (src/cli/multicoder.py): where it is
    launcher,           \* run_all, run_coordinator, ... (src/__main__.py)
    \* ---- the library wrappers (src/db/redis_client.py, src/utils/logging.py)
    redis,              \* one RedisClient: its client, the handle of its subscribe
    loggers             \* logging's loggers by name: level, handlers, calls

coordVars == <<pending_requests, agent, last, prev, out, exc, trans, handled, published>>

pipeVars == <<listening, inbox, responses, submitted, foreign>>

busVars == <<subscriptions, message_queue, stop_event, loop_task, loops, stoppers,
             sent, calls, dequeued>>

libVars == <<redis, loggers>>

driverVars == <<demo, cli, multicoder, launcher, libVars>>

vars == <<coordVars, pipeVars, busVars, driverVars>>

-----------------------------------------------------------------------------
(* Bounds of the model.                                                    *)

\* HistorySpec: the number of handler invocations whose history is kept.
MaxHandled == 4

\* PipeSpec: the number of process requests clients publish.
MaxRequests == 2

\* BusSpec: the number of publish calls, of loop tasks start creates, and of
\* stop calls in progress at the same time.
MaxPublished == 2

MaxLoops == 1

MaxStoppers == 1

\* MultiCoderSpec: the number of polls of MultiCoderCLI.wait_for_response
\* that fit before its deadline.
MaxPolls == 2

\* The longest prompt, in words, and the longest snippet, in lines, of
\* AgentsSpec.
MaxWords == 3

MaxLines == 2

\* OpenPipeSpec: the number of messages publishers other than the clients and
\* the agents put on the agents' channels.
MaxForeign == 1

-----------------------------------------------------------------------------
(* Python dict helpers.                                                    *)

NoneVal == "None"

EmptyMap == [k \in {} |-> TRUE]

Get(d, k, default) == IF k \in DOMAIN d THEN d[k] ELSE default

Put(d, k, v) == [x \in (DOMAIN d) \cup {k} |-> IF x = k THEN v ELSE d[x]]

Del(d, k) == [x \in (DOMAIN d) \ {k} |-> d[x]]

\* `not payload.get(k)` for a string-valued field whose empty value is `empty`.
Falsy(payload, k, empty) == k \notin DOMAIN payload \/ payload[k] = empty

\* A payload that is no mapping (JSON null, a number, a list): payload.get
\* raises AttributeError on it.
NotAMapping == [not_a_mapping |-> TRUE]

IsMapping(payload) == "not_a_mapping" \notin DOMAIN payload

-----------------------------------------------------------------------------
(* Channels.                                                               *)

REQUESTS == "multicoder:requests"

GENERATOR == "multicoder:generator"

VALIDATOR == "multicoder:validator"

RESPONSES == "multicoder:responses"

Channels == {REQUESTS, GENERATOR, VALIDATOR, RESPONSES}

-----------------------------------------------------------------------------
(* Strings of the model: prompts and code snippets.                        *)

EmptyPrompt == <<>>

PromptInverse == <<"Inverse", "une", "chaîne">>

PromptFact == <<"factorielle">>

Line(n) == [len |-> n, wildcard |-> FALSE]

ModuleNode == [kind |-> "Module", name |-> "", doc |-> FALSE]

\* The text "": it parses, "".split('\n') is [''], the module has no docstring.
EmptyCode ==
    [parses |-> TRUE, lines |-> <<Line(0)>>, nodes |-> <<ModuleNode>>]

\* The canned reversal function: 13 lines and the empty text after the last
\* newline; one documented function.
ReverseCode ==
    [parses |-> TRUE,
     lines |-> <<Line(34), Line(57), Line(4), Line(9), Line(39), Line(8), Line(12),
                 Line(28), Line(7), Line(15), Line(18), Line(30), Line(17), Line(0)>>,
     nodes |-> <<ModuleNode,
                 [kind |-> "FunctionDef", name |-> "reverse_string", doc |-> TRUE]>>]

\* The canned placeholder function.
GenericCode ==
    [parses |-> TRUE,
     lines |-> <<Line(23), Line(33), Line(4), Line(9), Line(40), Line(8), Line(12),
                 Line(29), Line(7), Line(58), Line(17), Line(17), Line(0)>>,
     nodes |-> <<ModuleNode,
                 [kind |-> "FunctionDef", name |-> "process_data", doc |-> TRUE]>>]

\* An issue string handed to the coordinator by a validated message.
IssueX == [kind |-> "x"]

-----------------------------------------------------------------------------
(* Agent.publish: the message an agent hands to the broker.                *)

AgentPublish(name, channel, action, payload) ==
    [channel |-> channel,
     data |-> [sender |-> name, action |-> action, payload |-> payload]]

-----------------------------------------------------------------------------
(* Coordinator.                                                            *)

\* The outcome of one handler invocation.
Outcome(pend, o, t, e) == [pending |-> pend, out |-> o, trans |-> t, exc |-> e]

NoEffect(pend) == Outcome(pend, <<>>, <<>>, "none")

Raised(pend, e) == Outcome(pend, <<>>, <<>>, e)

StatusOf(pend, rid) == IF rid \in DOMAIN pend THEN pend[rid]["status"] ELSE "absent"

\* Mutant: the handler rebinds the whole table, self.pending_requests =
\* {request_id: {...}}, so every other request's record is lost.
Coordinator_handle_new_request_shared(pend, payload) ==
    IF ~IsMapping(payload) THEN Raised(pend, "AttributeError")
    ELSE IF Falsy(payload, "request_id", "") \/ Falsy(payload, "prompt", EmptyPrompt)
    THEN NoEffect(pend)
    ELSE LET request_id == payload["request_id"]
             prompt == payload["prompt"]
         IN  Outcome(
                 Put(EmptyMap, request_id,
                     [prompt |-> prompt, status |-> "processing", result |-> NoneVal]),
                 <<AgentPublish("coordinator", GENERATOR, "generate",
                                [request_id |-> request_id, prompt |-> prompt])>>,
                 <<<<request_id, StatusOf(pend, request_id), "processing">>>>,
                 "none")

Coordinator_handle_new_request(pend, payload) ==
    IF ~IsMapping(payload) THEN Raised(pend, "AttributeError")
    ELSE IF Falsy(payload, "request_id", "") \/ Falsy(payload, "prompt", EmptyPrompt)
    THEN NoEffect(pend)
    ELSE LET request_id == payload["request_id"]
             prompt == payload["prompt"]
         IN  Outcome(
                 Put(pend, request_id,
                     [prompt |-> prompt, status |-> "processing", result |-> NoneVal]),
                 <<AgentPublish("coordinator", GENERATOR, "generate",
                                [request_id |-> request_id, prompt |-> prompt])>>,
                 <<<<request_id, StatusOf(pend, request_id), "processing">>>>,
                 "none")

\* Mutant: the membership test is forgotten, so an unknown request id raises
\* KeyError at self.pending_requests[request_id]["code"] = code.
Coordinator_handle_generated_code_unchecked(pend, payload) ==
    IF ~IsMapping(payload) THEN Raised(pend, "AttributeError")
    ELSE IF Falsy(payload, "request_id", "") \/ Falsy(payload, "code", EmptyCode)
    THEN NoEffect(pend)
    ELSE LET request_id == payload["request_id"]
             code == payload["code"]
         IN  IF request_id \in DOMAIN pend
             THEN Outcome(
                     Put(pend, request_id,
                         Put(Put(pend[request_id], "code", code),
                             "status", "validating")),
                     <<AgentPublish("coordinator", VALIDATOR, "validate",
                                    [request_id |-> request_id, code |-> code])>>,
                     <<<<request_id, pend[request_id]["status"], "validating">>>>,
                     "none")
             ELSE Raised(pend, "KeyError")

Coordinator_handle_generated_code(pend, payload) ==
    IF ~IsMapping(payload) THEN Raised(pend, "AttributeError")
    ELSE IF Falsy(payload, "request_id", "") \/ Falsy(payload, "code", EmptyCode)
    THEN NoEffect(pend)
    ELSE LET request_id == payload["request_id"]
             code == payload["code"]
         IN  IF request_id \in DOMAIN pend
             THEN Outcome(
                     Put(pend, request_id,
                         Put(Put(pend[request_id], "code", code),
                             "status", "validating")),
                     <<AgentPublish("coordinator", VALIDATOR, "validate",
                                    [request_id |-> request_id, code |-> code])>>,
                     <<<<request_id, pend[request_id]["status"], "validating">>>>,
                     "none")
             ELSE NoEffect(pend)

\* Mutant: the notify carries the status read before the record was updated.
Coordinator_handle_validated_code_stale(pend, payload) ==
    IF ~IsMapping(payload) THEN Raised(pend, "AttributeError")
    ELSE IF Falsy(payload, "request_id", "")
    THEN NoEffect(pend)
    ELSE LET request_id == payload["request_id"]
             is_valid == Get(payload, "is_valid", FALSE)
             issues == Get(payload, "issues", <<>>)
         IN  IF request_id \in DOMAIN pend
             THEN LET code == Get(pend[request_id], "code", EmptyCode)
                      request ==
                          IF is_valid
                          THEN Put(Put(pend[request_id], "status", "completed"),
                                   "result", [code |-> code, valid |-> TRUE])
                          ELSE Put(Put(pend[request_id], "status", "failed"),
                                   "result", [code |-> code, valid |-> FALSE,
                                              issues |-> issues])
                      updated == Put(pend, request_id, request)
                  IN  Outcome(
                          Del(updated, request_id),
                          <<AgentPublish("coordinator", RESPONSES, "notify",
                                         [request_id |-> request_id,
                                          status |-> pend[request_id]["status"],
                                          result |-> request["result"]])>>,
                          <<<<request_id, pend[request_id]["status"],
                              request["status"]>>>>,
                          "none")
             ELSE NoEffect(pend)

\* Mutant: the record is not deleted after the notify.
Coordinator_handle_validated_code_kept(pend, payload) ==
    IF ~IsMapping(payload) THEN Raised(pend, "AttributeError")
    ELSE IF Falsy(payload, "request_id", "")
    THEN NoEffect(pend)
    ELSE LET request_id == payload["request_id"]
             is_valid == Get(payload, "is_valid", FALSE)
             issues == Get(payload, "issues", <<>>)
         IN  IF request_id \in DOMAIN pend
             THEN LET code == Get(pend[request_id], "code", EmptyCode)
                      request ==
                          IF is_valid
                          THEN Put(Put(pend[request_id], "status", "completed"),
                                   "result", [code |-> code, valid |-> TRUE])
                          ELSE Put(Put(pend[request_id], "status", "failed"),
                                   "result", [code |-> code, valid |-> FALSE,
                                              issues |-> issues])
                      updated == Put(pend, request_id, request)
                  IN  Outcome(
                          updated,
                          <<AgentPublish("coordinator", RESPONSES, "notify",
                                         [request_id |-> request_id,
                                          status |-> request["status"],
                                          result |-> request["result"]])>>,
                          <<<<request_id, pend[request_id]["status"],
                              request["status"]>>>>,
                          "none")
             ELSE NoEffect(pend)

Coordinator_handle_validated_code(pend, payload) ==
    IF ~IsMapping(payload) THEN Raised(pend, "AttributeError")
    ELSE IF Falsy(payload, "request_id", "")
    THEN NoEffect(pend)
    ELSE LET request_id == payload["request_id"]
             is_valid == Get(payload, "is_valid", FALSE)
             issues == Get(payload, "issues", <<>>)
         IN  IF request_id \in DOMAIN pend
             THEN LET code == Get(pend[request_id], "code", EmptyCode)
                      \* request["status"] = ...; request["result"] = ...
                      request ==
                          IF is_valid
                          THEN Put(Put(pend[request_id], "status", "completed"),
                                   "result", [code |-> code, valid |-> TRUE])
                          ELSE Put(Put(pend[request_id], "status", "failed"),
                                   "result", [code |-> code, valid |-> FALSE,
                                              issues |-> issues])
                      updated == Put(pend, request_id, request)
                  IN  Outcome(
                          \* del self.pending_requests[request_id]
                          Del(updated, request_id),
                          <<AgentPublish("coordinator", RESPONSES, "notify",
                                         [request_id |-> request_id,
                                          status |-> request["status"],
                                          result |-> request["result"]])>>,
                          <<<<request_id, pend[request_id]["status"],
                              request["status"]>>>>,
                          "none")
             ELSE NoEffect(pend)

\* Mutant: the handler is chosen by the channel alone, without the test of the
\* action, so the coordinator answers the echo of its own generate and validate.
Coordinator_process_message_by_channel(pend, channel, message) ==
    LET payload == Get(message, "payload", EmptyMap)
    IN  IF channel = REQUESTS
        THEN Coordinator_handle_new_request(pend, payload)
        ELSE IF channel = GENERATOR
        THEN Coordinator_handle_generated_code(pend, payload)
        ELSE IF channel = VALIDATOR
        THEN Coordinator_handle_validated_code(pend, payload)
        ELSE NoEffect(pend)

\* Mutant: the validated branch tests the responses channel, so a validated
\* message on the validator channel is ignored.
Coordinator_process_message_misrouted(pend, channel, message) ==
    LET action == Get(message, "action", NoneVal)
        payload == Get(message, "payload", EmptyMap)
    IN  IF channel = REQUESTS /\ action = "process"
        THEN Coordinator_handle_new_request(pend, payload)
        ELSE IF channel = GENERATOR /\ action = "generated"
        THEN Coordinator_handle_generated_code(pend, payload)
        ELSE IF channel = RESPONSES /\ action = "validated"
        THEN Coordinator_handle_validated_code(pend, payload)
        ELSE NoEffect(pend)

Coordinator_process_message(pend, channel, message) ==
    LET action == Get(message, "action", NoneVal)
        payload == Get(message, "payload", EmptyMap)
    IN  IF channel = REQUESTS /\ action = "process"
        THEN Coordinator_handle_new_request(pend, payload)
        ELSE IF channel = GENERATOR /\ action = "generated"
        THEN Coordinator_handle_generated_code(pend, payload)
        ELSE IF channel = VALIDATOR /\ action = "validated"
        THEN Coordinator_handle_validated_code(pend, payload)
        ELSE NoEffect(pend)

-----------------------------------------------------------------------------
(* CodeGenerator.                                                          *)

\* str.lower on the words of the model.
Lower(w) ==
    CASE w = "Inverse" -> "inverse"
      [] w = "INVERSE" -> "inverse"
      [] w = "Chaîne" -> "chaîne"
      [] w = "CHAÎNE" -> "chaîne"
      [] w = "Reverse" -> "reverse"
      [] w = "String" -> "string"
      [] OTHER -> w

\* The lower-case words in which the text "inverse" occurs.
InverseWords == {"inverse", "inverser"}

\* The lower-case words in which "chaîne" or "chaine" occurs.
ChaineWords == {"chaîne", "chaine", "chaînes"}

\* re.search(r"inverse.*cha[îi]ne", prompt.lower()): "inverse", later on the same
\* line "chaîne" or "chaine" ("." does not match the newline).
MatchesInverseChaine(prompt) ==
    \E i, j \in 1..Len(prompt) :
        /\ i < j
        /\ Lower(prompt[i]) \in InverseWords
        /\ Lower(prompt[j]) \in ChaineWords
        /\ \A k \in (i + 1)..(j - 1) : prompt[k] # "\n"

CodeGenerator_generate_code(prompt) ==
    IF MatchesInverseChaine(prompt) THEN ReverseCode ELSE GenericCode

\* The outcome of a handler of a stateless agent.
Published(o) == [out |-> o, exc |-> "none"]

\* Mutant: only request_id is required; a missing prompt then raises at
\* prompt.lower(), an empty one yields the placeholder.
CodeGenerator_process_message_lax(channel, message) ==
    LET action == Get(message, "action", NoneVal)
        payload == Get(message, "payload", EmptyMap)
    IN  IF action = "generate"
        THEN IF ~IsMapping(payload) THEN [out |-> <<>>, exc |-> "AttributeError"]
             ELSE IF Falsy(payload, "request_id", "")
             THEN Published(<<>>)
             ELSE IF "prompt" \notin DOMAIN payload
             THEN [out |-> <<>>, exc |-> "AttributeError"]
             ELSE Published(
                     <<AgentPublish("code_generator", GENERATOR, "generated",
                                    [request_id |-> payload["request_id"],
                                     code |-> CodeGenerator_generate_code(
                                                  payload["prompt"])])>>)
        ELSE Published(<<>>)

CodeGenerator_process_message(channel, message) ==
    LET action == Get(message, "action", NoneVal)
        payload == Get(message, "payload", EmptyMap)
    IN  IF action = "generate"
        THEN IF ~IsMapping(payload) THEN [out |-> <<>>, exc |-> "AttributeError"]
             ELSE IF Falsy(payload, "request_id", "")
                     \/ Falsy(payload, "prompt", EmptyPrompt)
             THEN Published(<<>>)
             ELSE Published(
                     <<AgentPublish("code_generator", GENERATOR, "generated",
                                    [request_id |-> payload["request_id"],
                                     code |-> CodeGenerator_generate_code(
                                                  payload["prompt"])])>>)
        ELSE Published(<<>>)

-----------------------------------------------------------------------------
(* CodeValidator.                                                          *)

\* PEP 8 line length of _validate_code.
MaxLineLength == 79

\* Mutant: the test is len(line) >= 79.
LongLines_inclusive(lines) ==
    SelectSeq([i \in 1..Len(lines) |-> i], LAMBDA i : lines[i].len >= MaxLineLength)

\* The indices of `lines` that are too long, in order.
LongLines(lines) ==
    SelectSeq([i \in 1..Len(lines) |-> i], LAMBDA i : lines[i].len > MaxLineLength)

LineIssues(lines) ==
    [k \in 1..Len(LongLines(lines)) |->
        [kind |-> "line_too_long", line |-> LongLines(lines)[k],
         length |-> lines[LongLines(lines)[k]].len, limit |-> MaxLineLength]]

WildcardIssues(lines) ==
    IF \E i \in 1..Len(lines) : lines[i].wildcard
    THEN <<[kind |-> "wildcard_import"]>>
    ELSE <<>>

\* ast.walk: the function and class definitions without a docstring, in order;
\* a module without one adds no issue.
Undocumented(nodes) ==
    SelectSeq(nodes, LAMBDA n : ~n.doc /\ n.kind \in {"FunctionDef", "ClassDef"})

DocstringIssues(nodes) ==
    [k \in 1..Len(Undocumented(nodes)) |->
        [kind |-> "missing_docstring", node |-> Undocumented(nodes)[k].kind,
         name |-> Undocumented(nodes)[k].name]]

\* Mutant: line-length issues are reported and not counted against validity.
CodeValidator_validate_code_lenient(code) ==
    IF ~code.parses
    THEN [is_valid |-> FALSE, issues |-> <<[kind |-> "syntax_error"]>>]
    ELSE LET issues == LineIssues(code.lines) \o WildcardIssues(code.lines)
                           \o DocstringIssues(code.nodes)
         IN  [is_valid |-> (Len(WildcardIssues(code.lines)
                                    \o DocstringIssues(code.nodes)) = 0),
              issues |-> issues]

\* Mutant: the syntax error is recorded without the early return, and the
\* checks on the text of the code go on.
CodeValidator_validate_code_ungated(code) ==
    LET syntax == IF code.parses THEN <<>> ELSE <<[kind |-> "syntax_error"]>>
        issues == syntax \o LineIssues(code.lines) \o WildcardIssues(code.lines)
                      \o DocstringIssues(code.nodes)
    IN  [is_valid |-> (Len(issues) = 0), issues |-> issues]

CodeValidator_validate_code(code) ==
    IF ~code.parses
    THEN [is_valid |-> FALSE, issues |-> <<[kind |-> "syntax_error"]>>]
    ELSE LET issues == LineIssues(code.lines) \o WildcardIssues(code.lines)
                           \o DocstringIssues(code.nodes)
         IN  [is_valid |-> (Len(issues) = 0), issues |-> issues]

CodeValidator_process_message(channel, message) ==
    LET action == Get(message, "action", NoneVal)
        payload == Get(message, "payload", EmptyMap)
    IN  IF action = "validate"
        THEN IF ~IsMapping(payload) THEN [out |-> <<>>, exc |-> "AttributeError"]
             ELSE IF Falsy(payload, "request_id", "")
                     \/ Falsy(payload, "code", EmptyCode)
             THEN Published(<<>>)
             ELSE LET verdict == CodeValidator_validate_code(payload["code"])
                  IN  Published(
                          <<AgentPublish("code_validator", VALIDATOR, "validated",
                                         [request_id |-> payload["request_id"],
                                          is_valid |-> verdict.is_valid,
                                          issues |-> verdict.issues])>>)
        ELSE Published(<<>>)

\* Snippets the canned templates never produce.
LongLineCode ==
    [parses |-> TRUE, lines |-> <<Line(85), Line(0)>>, nodes |-> <<ModuleNode>>]

SyntaxErrorCode ==
    [parses |-> FALSE, lines |-> <<Line(85), Line(0)>>, nodes |-> <<>>]

UndocumentedCode ==
    [parses |-> TRUE, lines |-> <<Line(9), Line(8), Line(0)>>,
     nodes |-> <<ModuleNode, [kind |-> "FunctionDef", name |-> "f", doc |-> FALSE]>>]

-----------------------------------------------------------------------------
(* The messages the agents are handed in Spec: every payload shape.   *)

Ids == {"r1", "r2"}

IdValues == Ids \cup {""}

Prompts == {PromptInverse, PromptFact}

PromptValues == Prompts \cup {EmptyPrompt}

Codes == {ReverseCode, GenericCode}

CodeValues == Codes \cup {EmptyCode}

IssueLists == {<<>>, <<IssueX>>}

\* {request_id, prompt}, with either key possibly missing.
ProcessPayloads ==
    {[request_id |-> i, prompt |-> p] : i \in IdValues, p \in PromptValues}
        \cup {[request_id |-> i] : i \in IdValues}
        \cup {[prompt |-> p] : p \in PromptValues}
        \cup {EmptyMap}

\* {request_id, code}, with either key possibly missing.
GeneratedPayloads ==
    {[request_id |-> i, code |-> c] : i \in IdValues, c \in CodeValues}
        \cup {[request_id |-> i] : i \in IdValues}
        \cup {[code |-> c] : c \in CodeValues}
        \cup {EmptyMap}

\* {request_id, is_valid, issues}, with any key possibly missing.
ValidatedPayloads ==
    {[request_id |-> i, is_valid |-> v, issues |-> s] :
        i \in IdValues, v \in BOOLEAN, s \in IssueLists}
        \cup {[request_id |-> i, is_valid |-> v] : i \in IdValues, v \in BOOLEAN}
        \cup {[request_id |-> i, issues |-> s] : i \in IdValues, s \in IssueLists}
        \cup {[is_valid |-> v, issues |-> s] : v \in BOOLEAN, s \in IssueLists}
        \cup {[request_id |-> i] : i \in IdValues}
        \cup {[is_valid |-> v] : v \in BOOLEAN}
        \cup {[issues |-> s] : s \in IssueLists}
        \cup {EmptyMap}

Envelope(channel, sender, action, payload) ==
    [channel |-> channel,
     data |-> [sender |-> sender, action |-> action, payload |-> payload]]

ProcessMsg(id, prompt) ==
    Envelope(REQUESTS, "cli", "process", [request_id |-> id, prompt |-> prompt])

GeneratedMsg(id, code) ==
    Envelope(GENERATOR, "code_generator", "generated",
             [request_id |-> id, code |-> code])

ValidatedMsg(id, is_valid, issues) ==
    Envelope(VALIDATOR, "code_validator", "validated",
             [request_id |-> id, is_valid |-> is_valid, issues |-> issues])

\* Messages whose (channel, action) pair the coordinator does not handle, a
\* message without a payload key, and payloads that are no mapping.
OtherInputs ==
    {Envelope(GENERATOR, "coordinator", "generate",
              [request_id |-> "r1", prompt |-> PromptInverse]),
     Envelope(VALIDATOR, "coordinator", "validate",
              [request_id |-> "r1", code |-> ReverseCode]),
     Envelope(REQUESTS, "code_generator", "generated",
              [request_id |-> "r1", code |-> ReverseCode]),
     Envelope(GENERATOR, "code_validator", "validated",
              [request_id |-> "r1", is_valid |-> TRUE, issues |-> <<>>]),
     Envelope(RESPONSES, "cli", "process",
              [request_id |-> "r1", prompt |-> PromptInverse]),
     [channel |-> REQUESTS, data |-> [sender |-> "cli", action |-> "process"]],
     [channel |-> VALIDATOR, data |-> [sender |-> "code_validator"]],
     Envelope(REQUESTS, "cli", "process", NotAMapping),
     Envelope(GENERATOR, "code_generator", "generated", NotAMapping),
     Envelope(VALIDATOR, "code_validator", "validated", NotAMapping)}

Inputs ==
    {Envelope(REQUESTS, "cli", "process", p) : p \in ProcessPayloads}
        \cup {Envelope(GENERATOR, "code_generator", "generated", p) :
                p \in GeneratedPayloads}
        \cup {Envelope(VALIDATOR, "code_validator", "validated", p) :
                p \in ValidatedPayloads}
        \cup OtherInputs

\* What the generator is handed: generate payloads of every shape, the echo of
\* its own publication, and a payload that is no mapping.
GeneratorInputs ==
    {Envelope(GENERATOR, "coordinator", "generate", p) : p \in ProcessPayloads}
        \cup {GeneratedMsg("r1", ReverseCode),
              Envelope(GENERATOR, "coordinator", "generate", NotAMapping),
              [channel |-> GENERATOR, data |-> [sender |-> "coordinator"]]}

ValidatorCodes ==
    CodeValues \cup {LongLineCode, SyntaxErrorCode, UndocumentedCode}

ValidatePayloads ==
    {[request_id |-> i, code |-> c] : i \in IdValues, c \in ValidatorCodes}
        \cup {[request_id |-> i] : i \in IdValues}
        \cup {[code |-> c] : c \in ValidatorCodes}
        \cup {EmptyMap}

\* What the validator is handed.
ValidatorInputs ==
    {Envelope(VALIDATOR, "coordinator", "validate", p) : p \in ValidatePayloads}
        \cup {ValidatedMsg("r1", TRUE, <<>>),
              Envelope(VALIDATOR, "coordinator", "validate", NotAMapping),
              [channel |-> VALIDATOR, data |-> [sender |-> "coordinator"]]}

\* The messages of HistorySpec: for each id the well-formed messages of the
\* pipeline, and one message of each kind that is dropped.
HistoryInputs ==
    {ProcessMsg(i, PromptInverse) : i \in Ids}
        \cup {GeneratedMsg(i, c) : i \in Ids, c \in Codes}
        \cup {ValidatedMsg(i, TRUE, <<>>) : i \in Ids}
        \cup {ValidatedMsg(i, FALSE, <<IssueX>>) : i \in Ids}
        \cup {Envelope(REQUESTS, "cli", "process", [request_id |-> "r1"]),
              Envelope(VALIDATOR, "code_validator", "validated",
                       [is_valid |-> TRUE, issues |-> <<>>]),
              Envelope(GENERATOR, "coordinator", "generate",
                       [request_id |-> "r1", prompt |-> PromptInverse])}

-----------------------------------------------------------------------------
(* Spec: each agent handed any message at any time.                        *)
(* HistorySpec: the coordinator alone, keeping the whole history of a      *)
(* bounded run.                                                            *)

\* ------------------------------------------------------------------------
\* The in-process bus (src/core/mcp/bus.py).
\*
\* A callback is an async function named by a string.  A queued message is the
\* dict publish builds, with three fields no callback is handed: `mid`, the
\* identity of the dict object (the number of the publish call that built it),
\* `at_publish`, the callbacks subscribed to its channel when publish was
\* called, and `after_stop`, whether the stop event was set then (noted in
\* ConcurrentBusSpec only).  A delivery loop is one task created by start; loops[l] is the state
\* of the l-th task created.

\* self._loop_task = None
NoTask == 0

\* The callbacks of the model: two subscribers of any kind, handle_response of
\* run_prompt (demo.py 30-36) and MCPClient._handle_response.
Callbacks == {"cb1", "cb2", "handle_response", "_handle_response"}

\* The subscribe calls of the model: two callbacks on the requests channel, one
\* of them on the responses channel as well.
SubscribeCalls ==
    {<<REQUESTS, "cb1">>, <<REQUESTS, "cb2">>, <<RESPONSES, "cb2">>}

BusChannels == {REQUESTS, RESPONSES}

\* The publish calls of the model: a client's request, the coordinator's answer.
BusArguments ==
    { [channel |-> REQUESTS, sender |-> "client", action |-> "process",
       payload |-> [request_id |-> "r1", prompt |-> PromptFact]],
      [channel |-> RESPONSES, sender |-> "coordinator", action |-> "notify",
       payload |-> [request_id |-> "r1", status |-> "completed"]] }

\* The message dict MessageBus.publish builds.
MessageBus_message(channel, sender, action, payload) ==
    [channel |-> channel,
     data |-> [sender |-> sender, action |-> action, payload |-> payload]]

\* Mutant: the queue is a stack, get takes the newest message.
Queue_get_newest(queue) ==
    [message |-> queue[Len(queue)], rest |-> SubSeq(queue, 1, Len(queue) - 1)]

\* asyncio.Queue.get on a non-empty queue: the oldest message and the rest.
Queue_get(queue) == [message |-> Head(queue), rest |-> Tail(queue)]

\* `if channel in self._subscriptions: subscribers = list(...)`, else nobody.
Subscribers(subs, channel) ==
    IF channel \in DOMAIN subs THEN subs[channel] ELSE {}

\* Mutant: the callback is handed the queued message instead of its data.
SubscriptionCalls_whole(subs, message) ==
    [cb \in Subscribers(subs, message.channel) |->
        [channel |-> message.channel, data |-> message, mid |-> message.mid]]

\* Mutant: the message is fanned out to the callbacks of every channel.
SubscriptionCalls_broadcast(subs, message) ==
    [cb \in UNION {subs[c] : c \in DOMAIN subs} |->
        [channel |-> message.channel, data |-> message.data, mid |-> message.mid]]

\* The call callback(channel, data) the loop makes for each subscriber of the
\* channel of `message`.
SubscriptionCalls(subs, message) ==
    [cb \in Subscribers(subs, message.channel) |->
        [channel |-> message.channel, data |-> message.data, mid |-> message.mid]]

\* MessageBus.subscribe on the subscription table.
MessageBus_subscribe(subs, channel, callback) ==
    Put(subs, channel, Subscribers(subs, channel) \cup {callback})

\* Mutant: unsubscribe without the clean-up of empty sets.
MessageBus_unsubscribe_uncleaned(subs, channel, callback) ==
    IF channel \in DOMAIN subs /\ callback \in subs[channel]
    THEN Put(subs, channel, subs[channel] \ {callback})
    ELSE subs

\* MessageBus.unsubscribe on the subscription table.
MessageBus_unsubscribe(subs, channel, callback) ==
    IF channel \in DOMAIN subs /\ callback \in subs[channel]
    THEN IF subs[channel] \ {callback} = {}
         THEN Del(subs, channel)
         ELSE Put(subs, channel, subs[channel] \ {callback})
    ELSE subs

\* A loop task that is not handling a message: `mid` is the message in hand
\* (NoMessageInHand if none), `tasks` the state of the task created for each
\* subscriber: "pending", "stopping" (inside a call of MessageBus.stop it
\* awaits), "returned" or "raised".
NoMessageInHand == 0

IdleLoop(pc) == [pc |-> pc, mid |-> NoMessageInHand, tasks |-> EmptyMap]

\* A loop task that has just been created.
NewLoop == IdleLoop("check")

\* The caller of a stop call that is no callback task of the bus.
Outside == [loop |-> NoTask, cb |-> "none"]

\* The number of stop calls awaiting some loop task.
Stopping == Len(stoppers)

\* Mutant: gather without return_exceptions, the exception of a callback reaches
\* the `except Exception` of the loop, which ends.
AfterGather_propagating(tasks) ==
    IF \E cb \in DOMAIN tasks : tasks[cb] = "raised" THEN "done" ELSE "check"

\* Where the loop goes when asyncio.gather(..., return_exceptions=True) has
\* completed, whatever the tasks returned or raised: task_done, next iteration.
AfterGather(tasks) == "check"

\* MessageBus.__init__: nothing subscribed, queued or running.
BusInit ==
    /\ subscriptions = EmptyMap
    /\ message_queue = <<>>
    /\ stop_event = FALSE
    /\ loop_task = NoTask
    /\ loops = <<>>
    /\ stoppers = <<>>
    /\ sent = <<>>
    /\ calls = [cb \in Callbacks |-> <<>>]
    /\ dequeued = <<>>

\* MessageBus.start, the model creating at most `limit` loop tasks.
StartWithin(limit) ==
    /\ IF loop_task # NoTask
       THEN UNCHANGED <<stop_event, loop_task, loops>>
       ELSE /\ Len(loops) < limit
            /\ stop_event' = FALSE
            /\ loops' = Append(loops, NewLoop)
            /\ loop_task' = Len(loops) + 1
    /\ UNCHANGED <<subscriptions, message_queue, stoppers, sent, calls, dequeued>>

\* MessageBus.stop up to `await self._loop_task`, called by `caller`, the model
\* having at most `limit` stop calls in progress.
StopBeginWithin(limit, caller) ==
    IF loop_task = NoTask
    THEN UNCHANGED <<stop_event, stoppers>>
    ELSE /\ Stopping < limit
         /\ stop_event' = TRUE
         /\ stoppers' = Append(stoppers, [awaits |-> loop_task, by |-> caller])

Start == StartWithin(MaxLoops)

StopBegin ==
    /\ StopBeginWithin(MaxStoppers, Outside)
    /\ UNCHANGED <<subscriptions, message_queue, loop_task, loops, sent, calls,
                   dequeued>>

\* MessageBus.stop called by the callback task cb of loop l, which then waits
\* inside it; on a bus with no loop task recorded stop returns at once.
StopInCallback(limit) ==
    /\ \E l \in 1..Len(loops) :
          \E cb \in DOMAIN loops[l].tasks :
              /\ loops[l].tasks[cb] = "pending"
              /\ StopBeginWithin(limit, [loop |-> l, cb |-> cb])
              /\ loops' = IF loop_task = NoTask
                          THEN loops
                          ELSE [loops EXCEPT ![l].tasks[cb] = "stopping"]
    /\ UNCHANGED <<subscriptions, message_queue, loop_task, sent, calls, dequeued>>

\* MessageBus.stop after the awaited loop task has finished: the task is
\* forgotten and the queue emptied; a callback that called stop goes on.
StopFinish ==
    /\ \E i \in 1..Len(stoppers) :
          /\ loops[stoppers[i].awaits].pc = "done"
          /\ stoppers' = SubSeq(stoppers, 1, i - 1) \o
                         SubSeq(stoppers, i + 1, Len(stoppers))
          /\ loops' = IF stoppers[i].by = Outside
                      THEN loops
                      ELSE [loops EXCEPT
                              ![stoppers[i].by.loop].tasks[stoppers[i].by.cb] =
                                  "pending"]
    /\ loop_task' = NoTask
    /\ message_queue' = <<>>
    /\ UNCHANGED <<subscriptions, stop_event, sent, calls, dequeued>>

Subscribe ==
    /\ \E call \in SubscribeCalls :
          subscriptions' = MessageBus_subscribe(subscriptions, call[1], call[2])
    /\ UNCHANGED <<message_queue, stop_event, loop_task, loops, stoppers, sent,
                   calls, dequeued>>

Unsubscribe ==
    /\ \E channel \in BusChannels, callback \in Callbacks :
          subscriptions' = MessageBus_unsubscribe(subscriptions, channel, callback)
    /\ UNCHANGED <<message_queue, stop_event, loop_task, loops, stoppers, sent,
                   calls, dequeued>>

\* MessageBus.publish: the message is put on the queue.  With `noting`, the
\* queued message tells whether the stop event was set at the call.
PublishCall(a, noting) ==
    LET message == MessageBus_message(a.channel, a.sender, a.action, a.payload)
        queued == message @@
                  [mid |-> Len(sent) + 1,
                   at_publish |-> Subscribers(subscriptions, a.channel),
                   after_stop |-> noting /\ stop_event]
    IN  /\ message_queue' = Append(message_queue, queued)
        /\ sent' = Append(sent, message)

PublishNoting(noting) ==
    /\ Len(sent) < MaxPublished
    /\ \E a \in BusArguments : PublishCall(a, noting)
    /\ UNCHANGED <<subscriptions, stop_event, loop_task, loops, stoppers, calls,
                   dequeued>>

Publish == PublishNoting(FALSE)

\* `while not self._stop_event.is_set()` of loop l.
LoopCheck(l) ==
    /\ loops[l].pc = "check"
    /\ loops' = [loops EXCEPT ![l].pc = IF stop_event THEN "done" ELSE "get"]
    /\ UNCHANGED <<subscriptions, message_queue, stop_event, loop_task, stoppers,
                   sent, calls, dequeued>>

\* wait_for(self._message_queue.get(), 0.1) of loop l times out: continue.
LoopTimeout(l) ==
    /\ loops[l].pc = "get"
    /\ message_queue = <<>>
    /\ loops' = [loops EXCEPT ![l].pc = "check"]
    /\ UNCHANGED <<subscriptions, message_queue, stop_event, loop_task, stoppers,
                   sent, calls, dequeued>>

\* Loop l gets a message and creates one task per current subscriber of its
\* channel; with no subscriber the message is marked done at once.
LoopGet(l) ==
    /\ loops[l].pc = "get"
    /\ message_queue # <<>>
    /\ LET got == Queue_get(message_queue)
           made == SubscriptionCalls(subscriptions, got.message)
       IN  /\ message_queue' = got.rest
           /\ dequeued' = Append(dequeued, got.message.mid)
           /\ calls' = [cb \in Callbacks |->
                           IF cb \in DOMAIN made
                           THEN Append(calls[cb], made[cb])
                           ELSE calls[cb]]
           /\ loops' = [loops EXCEPT ![l] =
                           IF DOMAIN made = {}
                           THEN IdleLoop("check")
                           ELSE [pc |-> "gather",
                                 mid |-> got.message.mid,
                                 tasks |-> [cb \in DOMAIN made |-> "pending"]]]
    /\ UNCHANGED <<subscriptions, stop_event, loop_task, stoppers, sent>>

\* A callback task of loop l returns or raises.
CallbackEnds(l) ==
    /\ loops[l].pc = "gather"
    /\ \E cb \in DOMAIN loops[l].tasks, result \in {"returned", "raised"} :
          /\ loops[l].tasks[cb] = "pending"
          /\ loops' = [loops EXCEPT ![l].tasks[cb] = result]
    /\ UNCHANGED <<subscriptions, message_queue, stop_event, loop_task, stoppers,
                   sent, calls, dequeued>>

\* asyncio.gather(..., return_exceptions=True) of loop l completes: every task
\* has returned or raised; task_done.
LoopGathered(l) ==
    /\ loops[l].pc = "gather"
    /\ \A cb \in DOMAIN loops[l].tasks :
          loops[l].tasks[cb] \in {"returned", "raised"}
    /\ loops' = [loops EXCEPT ![l] = IdleLoop(AfterGather(loops[l].tasks))]
    /\ UNCHANGED <<subscriptions, message_queue, stop_event, loop_task, stoppers,
                   sent, calls, dequeued>>

\* One step of MessageBus._process_messages of some loop task.
ProcessMessages ==
    \E l \in 1..Len(loops) :
        \/ LoopCheck(l)
        \/ LoopTimeout(l)
        \/ LoopGet(l)
        \/ CallbackEnds(l)
        \/ LoopGathered(l)

\* ------------------------------------------------------------------------
\* The specifications of the agents.

NoMessage == [channel |-> "none", data |-> EmptyMap]

CoordInit ==
    /\ pending_requests = EmptyMap
    /\ agent = "none"
    /\ last = NoMessage
    /\ prev = EmptyMap
    /\ out = <<>>
    /\ exc = "none"
    /\ trans = <<>>
    /\ handled = <<>>
    /\ published = <<>>

\* One invocation of Coordinator.process_message(channel, message).
Handle(env) ==
    LET r == Coordinator_process_message(pending_requests, env.channel, env.data)
    IN  /\ pending_requests' = r.pending
        /\ agent' = "coordinator"
        /\ last' = env
        /\ prev' = pending_requests
        /\ out' = r.out
        /\ exc' = r.exc
        /\ trans' = r.trans

\* One invocation of process_message of a stateless agent, with outcome r.
HandleStateless(name, env, r) ==
    /\ agent' = name
    /\ last' = env
    /\ prev' = pending_requests
    /\ out' = r.out
    /\ exc' = r.exc
    /\ trans' = <<>>
    /\ UNCHANGED pending_requests

CoordinatorHandles ==
    /\ \E env \in Inputs : Handle(env)
    /\ UNCHANGED <<handled, published>>

GeneratorHandles ==
    /\ \E env \in GeneratorInputs :
          HandleStateless("code_generator", env,
                          CodeGenerator_process_message(env.channel, env.data))
    /\ UNCHANGED <<handled, published>>

ValidatorHandles ==
    /\ \E env \in ValidatorInputs :
          HandleStateless("code_validator", env,
                          CodeValidator_process_message(env.channel, env.data))
    /\ UNCHANGED <<handled, published>>

CoordinatorHandlesRecorded ==
    /\ Len(handled) < MaxHandled
    /\ \E env \in HistoryInputs :
          /\ Handle(env)
          /\ handled' = Append(handled, env)
          /\ published' = published \o out'

\* The broker side is idle in Spec and HistorySpec.
PipeIdle ==
    /\ listening = {}
    /\ inbox = EmptyMap
    /\ responses = <<>>
    /\ submitted = <<>>
    /\ foreign = 0

\* The demonstration is not running.
DemoOff == [pc |-> "off", at |-> 0, since |-> 0, shown |-> <<>>]

\* No MCPClient is running.
ClientOff == [pc |-> "off", request_id |-> NoneVal, issued |-> 0,
              _waiting_for_responses |-> EmptyMap, _response_events |-> EmptyMap,
              returned |-> {}, heard |-> EmptyMap, outcome |-> EmptyMap]

\* No MultiCoderCLI is running.
MultiCoderOff == [pc |-> "off", request_id |-> NoneVal, sent_at |-> 0,
                  subscribed_at |-> 0, read |-> 0, polls |-> 0,
                  outcome |-> EmptyMap]

\* No launcher of src/__main__.py is running.
LauncherOff == [component |-> "none", pc |-> "off", at |-> 0,
                started |-> <<>>, stopped |-> <<>>]

\* A RedisClient as __init__ leaves it (redis_client.py 39-42): client None, no
\* call in progress, no subscription handle.  verified tells whether a ping
\* through the object in client has succeeded, handed through what kind of
\* client the broker was last given a message or a subscription, raised what
\* the last connect, publish or disconnect raised, error what the handlers of
\* subscribe caught and propagated what subscribe raised to its caller.
RedisOff == [client |-> "None", verified |-> FALSE, closed |-> FALSE,
             raised |-> "none", handed |-> "none",
             pc |-> "idle", handle |-> "none", error |-> "none",
             propagated |-> "none", received |-> 0]

\* No logger has been asked for: logging.getLogger has created none, nothing
\* was logged.  loggerDict is logging's table of loggers by name, configured
\* counts the configure_logger calls per name, emitted is the last message
\* logged with the number of times it was written to standard output.
NoLoggers == [loggerDict |-> <<>>, configured |-> <<>>,
              emitted |-> [name |-> "none", levelno |-> 0, times |-> 0]]

LibsOff ==
    /\ redis = RedisOff
    /\ loggers = NoLoggers

DriversOff ==
    /\ demo = DemoOff
    /\ cli = ClientOff
    /\ multicoder = MultiCoderOff
    /\ launcher = LauncherOff
    /\ LibsOff

Init == CoordInit /\ PipeIdle /\ BusInit /\ DriversOff

Next ==
    \/ CoordinatorHandles /\ UNCHANGED <<pipeVars, busVars, driverVars>>
    \/ GeneratorHandles /\ UNCHANGED <<pipeVars, busVars, driverVars>>
    \/ ValidatorHandles /\ UNCHANGED <<pipeVars, busVars, driverVars>>

Spec == Init /\ [][Next]_vars

HistoryNext == CoordinatorHandlesRecorded /\ UNCHANGED <<pipeVars, busVars, driverVars>>

HistorySpec == Init /\ [][HistoryNext]_vars

\* The bus alone: any calls of its methods, interleaved with its loop tasks.
BusNext ==
    \/ Start /\ UNCHANGED <<coordVars, pipeVars, driverVars>>
    \/ StopBegin /\ UNCHANGED <<coordVars, pipeVars, driverVars>>
    \/ StopFinish /\ UNCHANGED <<coordVars, pipeVars, driverVars>>
    \/ Subscribe /\ UNCHANGED <<coordVars, pipeVars, driverVars>>
    \/ Unsubscribe /\ UNCHANGED <<coordVars, pipeVars, driverVars>>
    \/ Publish /\ UNCHANGED <<coordVars, pipeVars, driverVars>>
    \/ ProcessMessages /\ UNCHANGED <<coordVars, pipeVars, driverVars>>

BusSpec == Init /\ [][BusNext]_vars

\* The bus with callers that overlap: stop called while another stop call is
\* in progress, stop called by a subscriber callback, start called again after
\* a stop.
ConcurrentBusNext ==
    \/ StartWithin(MaxLoops + 2) /\ UNCHANGED <<coordVars, pipeVars, driverVars>>
    \/ /\ StopBeginWithin(MaxStoppers + 1, Outside)
       /\ UNCHANGED <<subscriptions, message_queue, loop_task, loops, sent, calls,
                      dequeued>>
       /\ UNCHANGED <<coordVars, pipeVars, driverVars>>
    \/ StopInCallback(MaxStoppers + 1) /\ UNCHANGED <<coordVars, pipeVars, driverVars>>
    \/ StopFinish /\ UNCHANGED <<coordVars, pipeVars, driverVars>>
    \/ Subscribe /\ UNCHANGED <<coordVars, pipeVars, driverVars>>
    \/ Unsubscribe /\ UNCHANGED <<coordVars, pipeVars, driverVars>>
    \/ PublishNoting(TRUE) /\ UNCHANGED <<coordVars, pipeVars, driverVars>>
    \/ ProcessMessages /\ UNCHANGED <<coordVars, pipeVars, driverVars>>

ConcurrentBusSpec == Init /\ [][ConcurrentBusNext]_vars

\* The bus with the start of each callback task told apart from its creation:
\* asyncio.create_task (bus.py 170) only schedules callback(channel, data), whose
\* body begins when the loop task has reached its await of gather (175) and
\* the tasks scheduled before it have run.  A task of state "pending" has not
\* begun, a task of state "running" has.
CallbackStarts(l) ==
    /\ loops[l].pc = "gather"
    /\ \E cb \in DOMAIN loops[l].tasks :
          /\ loops[l].tasks[cb] = "pending"
          /\ loops' = [loops EXCEPT ![l].tasks[cb] = "running"]
    /\ UNCHANGED <<subscriptions, message_queue, stop_event, loop_task, stoppers,
                   sent, calls, dequeued>>

\* A callback task of loop l that has begun returns or raises.
CallbackReturns(l) ==
    /\ loops[l].pc = "gather"
    /\ \E cb \in DOMAIN loops[l].tasks, result \in {"returned", "raised"} :
          /\ loops[l].tasks[cb] = "running"
          /\ loops' = [loops EXCEPT ![l].tasks[cb] = result]
    /\ UNCHANGED <<subscriptions, message_queue, stop_event, loop_task, stoppers,
                   sent, calls, dequeued>>

\* subscribe, unsubscribe and publish called by any task (a callback that has
\* begun, a client), interleaved with the steps of the delivery loop.
FanoutNext ==
    \/ Start /\ UNCHANGED <<coordVars, pipeVars, driverVars>>
    \/ Subscribe /\ UNCHANGED <<coordVars, pipeVars, driverVars>>
    \/ Unsubscribe /\ UNCHANGED <<coordVars, pipeVars, driverVars>>
    \/ Publish /\ UNCHANGED <<coordVars, pipeVars, driverVars>>
    \/ /\ \E l \in 1..Len(loops) :
             LoopCheck(l) \/ LoopTimeout(l) \/ LoopGet(l) \/ LoopGathered(l)
       /\ UNCHANGED <<coordVars, pipeVars, driverVars>>
    \/ /\ \E l \in 1..Len(loops) : CallbackStarts(l)
       /\ UNCHANGED <<coordVars, pipeVars, driverVars>>
    \/ /\ \E l \in 1..Len(loops) : CallbackReturns(l)
       /\ UNCHANGED <<coordVars, pipeVars, driverVars>>

FanoutSpec == Init /\ [][FanoutNext]_vars

-----------------------------------------------------------------------------
(* Claims about the coordinator.                                           *)

\* The request id a message names, NoneVal if it names none.
RequestIdOf(env) ==
    LET payload == Get(env.data, "payload", EmptyMap)
    IN  IF IsMapping(payload) THEN Get(payload, "request_id", NoneVal) ELSE NoneVal

ActionOf(env) == Get(env.data, "action", NoneVal)

PayloadOf(env) == Get(env.data, "payload", EmptyMap)

\* The messages of `seq` that name request id `id`, in order.
Naming(seq, id) == SelectSeq(seq, LAMBDA e : RequestIdOf(e) = id)

\* The messages published on multicoder:responses that name `id`, in order.
OnResponses(id) ==
    SelectSeq(published, LAMBDA e : e.channel = RESPONSES /\ RequestIdOf(e) = id)

NotifyCompleted(id, code) ==
    [channel |-> RESPONSES,
     data |-> [sender |-> "coordinator", action |-> "notify",
               payload |-> [request_id |-> id, status |-> "completed",
                            result |-> [code |-> code, valid |-> TRUE]]]]

NotifyFailed(id, code, issues) ==
    [channel |-> RESPONSES,
     data |-> [sender |-> "coordinator", action |-> "notify",
               payload |-> [request_id |-> id, status |-> "failed",
                            result |-> [code |-> code, valid |-> FALSE,
                                        issues |-> issues]]]]

\* C1. When the messages the coordinator has handled for a request id are exactly
\* process {id, prompt}, generated {id, code}, validated {id, is_valid, issues},
\* in that order, with a non-empty prompt and code (messages of other requests
\* may come in between), then exactly one message was published on
\* multicoder:responses for id: a notify with status completed and result
\* {code, valid: true} when is_valid, with status failed and result
\* {code, valid: false, issues} otherwise; and id is absent from pending_requests.
C1_Scenario ==
    \A id \in Ids :
        LET naming == Naming(handled, id)
        IN  \A p \in Prompts, c \in Codes, v \in BOOLEAN, iss \in IssueLists :
                naming = <<ProcessMsg(id, p), GeneratedMsg(id, c),
                           ValidatedMsg(id, v, iss)>>
                => /\ OnResponses(id)
                        = <<IF v THEN NotifyCompleted(id, c)
                                 ELSE NotifyFailed(id, c, iss)>>
                   /\ id \notin DOMAIN pending_requests

\* The failed scenario of r1 has run to its end, with the process message of r2
\* handled in its middle.
C1_Witness ==
    /\ Naming(handled, "r1")
         = <<ProcessMsg("r1", PromptInverse), GeneratedMsg("r1", GenericCode),
             ValidatedMsg("r1", FALSE, <<IssueX>>)>>
    /\ Len(handled) = 4
    /\ handled[2] = ProcessMsg("r2", PromptInverse)

StatusRank(status) ==
    CASE status = "absent" -> 0
      [] status = "processing" -> 1
      [] status = "validating" -> 2
      [] status = "completed" -> 3
      [] status = "failed" -> 3

\* C2. Every status assignment follows processing -> validating ->
\* (completed | failed): a record is set to completed or failed only when its
\* status is validating, and no assignment moves a record's status backwards.
C2_StatusMachine ==
    \A k \in 1..Len(trans) :
        LET from == trans[k][2]
            to == trans[k][3]
        IN  /\ to \in {"completed", "failed"} => from = "validating"
            /\ StatusRank(from) <= StatusRank(to)

\* The latest invocation was the coordinator's, for a validated message that
\* names a request id it held a record for.
ValidatedForKnown ==
    /\ agent = "coordinator"
    /\ last.channel = VALIDATOR
    /\ ActionOf(last) = "validated"
    /\ RequestIdOf(last) \in DOMAIN prev

ForUnknownRequest ==
    /\ agent = "coordinator"
    /\ \/ last.channel = GENERATOR /\ ActionOf(last) = "generated"
       \/ last.channel = VALIDATOR /\ ActionOf(last) = "validated"
    /\ IsMapping(PayloadOf(last))
    /\ RequestIdOf(last) \notin DOMAIN prev

\* C4. Handling a generated or a validated message whose request_id has no record
\* in pending_requests publishes nothing, raises nothing and leaves
\* pending_requests as it was.
C4_UnknownIdDropped ==
    ForUnknownRequest => /\ out = <<>>
                         /\ exc = "none"
                         /\ pending_requests = prev

\* A well-formed generated message for r2 was handled while only r1 was pending.
C4_Witness ==
    /\ ForUnknownRequest
    /\ last = GeneratedMsg("r2", ReverseCode)
    /\ DOMAIN prev = {"r1"}

MissingField(env, k, empty) ==
    IsMapping(PayloadOf(env)) /\ Falsy(PayloadOf(env), k, empty)

\* The latest invocation was for a message of the agent's own action that lacks
\* a required payload field (the key is missing or its value is empty).
MalformedHandled ==
    \/ /\ agent = "coordinator"
       /\ last.channel = REQUESTS /\ ActionOf(last) = "process"
       /\ MissingField(last, "request_id", "") \/ MissingField(last, "prompt", EmptyPrompt)
    \/ /\ agent = "coordinator"
       /\ last.channel = GENERATOR /\ ActionOf(last) = "generated"
       /\ MissingField(last, "request_id", "") \/ MissingField(last, "code", EmptyCode)
    \/ /\ agent = "coordinator"
       /\ last.channel = VALIDATOR /\ ActionOf(last) = "validated"
       /\ MissingField(last, "request_id", "")
    \/ /\ agent = "code_generator"
       /\ ActionOf(last) = "generate"
       /\ MissingField(last, "request_id", "") \/ MissingField(last, "prompt", EmptyPrompt)
    \/ /\ agent = "code_validator"
       /\ ActionOf(last) = "validate"
       /\ MissingField(last, "request_id", "") \/ MissingField(last, "code", EmptyCode)

\* C5. A message that lacks a required payload field is dropped by every agent:
\* the handler publishes nothing, raises nothing, and pending_requests is as it
\* was before.
C5_MalformedDropped ==
    MalformedHandled => /\ out = <<>>
                        /\ exc = "none"
                        /\ pending_requests = prev

\* The coordinator was handed a generated message without code for a request it
\* holds a record for.
C5_Witness ==
    /\ MalformedHandled
    /\ agent = "coordinator"
    /\ last = Envelope(GENERATOR, "code_generator", "generated", [request_id |-> "r1"])
    /\ "r1" \in DOMAIN prev

-----------------------------------------------------------------------------
(* PipeSpec: the three agents started on the broker, and clients that       *)
(* publish process requests.  The broker hands every published message to   *)
(* the pubsub of every agent subscribed to its channel, in publish order.    *)

Agents == {"coordinator", "code_generator", "code_validator"}

\* Agent.channels, as each constructor sets it.
AgentChannels ==
    [coordinator |-> {REQUESTS, GENERATOR, VALIDATOR},
     code_generator |-> {GENERATOR},
     code_validator |-> {VALIDATOR}]

\* The messages of `msgs` published on `channel`, in order.
OnChannels(msgs, channels) == SelectSeq(msgs, LAMBDA e : e.channel \in channels)

\* redis publish: each message reaches the pubsub of every subscribed agent.
Deliver(inb, msgs) ==
    [a \in DOMAIN inb |-> inb[a] \o OnChannels(msgs, AgentChannels[a])]

\* Agent.start has returned for every agent: subscribed, _listen running.
PipeInit ==
    /\ CoordInit
    /\ listening = Agents
    /\ inbox = [a \in Agents |-> <<>>]
    /\ responses = <<>>
    /\ submitted = <<>>
    /\ foreign = 0
    /\ BusInit
    /\ DriversOff

\* str(uuid.uuid4()) of the i-th request: an id no other request has.
Uuid(i) == "u" \o ToString(i)

ClientIds == {Uuid(i) : i \in 1..MaxRequests}

\* send_request of a client: a process message on multicoder:requests with a
\* fresh request id and any prompt.  `seen` is the number of responses published
\* before it.
ClientSubmits ==
    /\ Len(submitted) < MaxRequests
    /\ \E prompt \in PromptValues :
          LET id == Uuid(Len(submitted) + 1)
          IN  /\ submitted' = Append(submitted,
                                     [request_id |-> id, prompt |-> prompt,
                                      seen |-> Len(responses)])
              /\ inbox' = Deliver(inbox, <<ProcessMsg(id, prompt)>>)
    /\ UNCHANGED <<coordVars, listening, responses, foreign>>

\* One turn of Agent._listen of agent `a` whose process_message has outcome `r`:
\* the messages it publishes reach the subscribers, an exception ends the loop.
Listens(a, r) ==
    /\ inbox' = Deliver([inbox EXCEPT ![a] = Tail(@)], r.out)
    /\ responses' = responses \o OnChannels(r.out, {RESPONSES})
    /\ listening' = IF r.exc = "none" THEN listening ELSE listening \ {a}
    /\ UNCHANGED <<submitted, foreign, agent, last, prev, out, exc, trans, handled,
                   published>>

CoordinatorListens ==
    /\ "coordinator" \in listening
    /\ inbox["coordinator"] # <<>>
    /\ LET env == Head(inbox["coordinator"])
           r == Coordinator_process_message(pending_requests, env.channel, env.data)
       IN  /\ pending_requests' = r.pending
           /\ Listens("coordinator", r)

GeneratorListens ==
    /\ "code_generator" \in listening
    /\ inbox["code_generator"] # <<>>
    /\ LET env == Head(inbox["code_generator"])
       IN  /\ Listens("code_generator",
                      CodeGenerator_process_message(env.channel, env.data))
           /\ UNCHANGED pending_requests

ValidatorListens ==
    /\ "code_validator" \in listening
    /\ inbox["code_validator"] # <<>>
    /\ LET env == Head(inbox["code_validator"])
       IN  /\ Listens("code_validator",
                      CodeValidator_process_message(env.channel, env.data))
           /\ UNCHANGED pending_requests

PipeNext ==
    \/ ClientSubmits /\ UNCHANGED <<busVars, driverVars>>
    \/ CoordinatorListens /\ UNCHANGED <<busVars, driverVars>>
    \/ GeneratorListens /\ UNCHANGED <<busVars, driverVars>>
    \/ ValidatorListens /\ UNCHANGED <<busVars, driverVars>>

PipeSpec == PipeInit /\ [][PipeNext]_vars

\* Every listen loop with a message to yield takes its turn.
FairPipeSpec ==
    /\ PipeSpec
    /\ WF_vars(CoordinatorListens /\ UNCHANGED <<busVars, driverVars>>)
    /\ WF_vars(GeneratorListens /\ UNCHANGED <<busVars, driverVars>>)
    /\ WF_vars(ValidatorListens /\ UNCHANGED <<busVars, driverVars>>)

\* Message data that json.loads (base.py 109) rejects.
Undecodable == [undecodable |-> TRUE]

\* What any other client of the broker can publish on the agents' channels:
\* bytes that are no JSON, and JSON messages whose payload is no mapping.
ForeignMessages ==
    {[channel |-> c, data |-> Undecodable] : c \in {REQUESTS, GENERATOR, VALIDATOR}}
        \cup {Envelope(REQUESTS, "cli", "process", NotAMapping),
              Envelope(GENERATOR, "coordinator", "generate", NotAMapping),
              Envelope(VALIDATOR, "coordinator", "validate", NotAMapping)}

ForeignPublishes ==
    /\ foreign < MaxForeign
    /\ foreign' = foreign + 1
    /\ \E env \in ForeignMessages : inbox' = Deliver(inbox, <<env>>)
    /\ UNCHANGED <<coordVars, listening, responses, submitted>>

\* The next message of agent `a` passes json.loads.
Decodable(a) == inbox[a] # <<>> /\ Head(inbox[a]).data # Undecodable

\* One turn of Agent._listen of agent `a` on a message json.loads rejects: the
\* exception leaves the `async for` and is logged by the handler around it
\* (base.py 118-121); process_message is not called.
DecodeFails(a) ==
    /\ a \in listening
    /\ inbox[a] # <<>>
    /\ Head(inbox[a]).data = Undecodable
    /\ inbox' = [inbox EXCEPT ![a] = Tail(@)]
    /\ listening' = listening \ {a}
    /\ UNCHANGED <<coordVars, responses, submitted, foreign>>

\* The agents over a broker that other clients publish on too.
OpenPipeNext ==
    \/ ClientSubmits /\ UNCHANGED <<busVars, driverVars>>
    \/ ForeignPublishes /\ UNCHANGED <<busVars, driverVars>>
    \/ Decodable("coordinator") /\ CoordinatorListens /\ UNCHANGED <<busVars, driverVars>>
    \/ Decodable("code_generator") /\ GeneratorListens /\ UNCHANGED <<busVars, driverVars>>
    \/ Decodable("code_validator") /\ ValidatorListens /\ UNCHANGED <<busVars, driverVars>>
    \/ (\E a \in Agents : DecodeFails(a)) /\ UNCHANGED <<busVars, driverVars>>

OpenPipeSpec == PipeInit /\ [][OpenPipeNext]_vars

-----------------------------------------------------------------------------
(* The demonstration driver (src/demo.py): main starts the in-process bus   *)
(* and the three agents, run_prompt publishes a request on the bus and      *)
(* waits for its notify.  demo.pc is the statement main or run_prompt is    *)
(* at; demo.at counts the agents started or stopped and the prompts run.    *)

\* demo.py 95-102 and 115-119: the agents in the order main starts and stops them.
DemoStartOrder == <<"coordinator", "code_generator", "code_validator">>

DemoStopOrder == <<"code_validator", "code_generator", "coordinator">>

\* demo.py 106-109: the two example prompts.
DemoPrompts == <<PromptInverse, PromptFact>>

\* demo.py 43-51: the arguments of message_bus.publish.
DemoRequest(prompt) ==
    [channel |-> REQUESTS, sender |-> "demo-client", action |-> "process",
     payload |-> [request_id |-> "demo-request", prompt |-> prompt]]

\* The calls of the handle_response of the run_prompt in progress (a new
\* closure and a new result_future per run, demo.py 27-36) with a notify that
\* names the request id of the demonstration: demo.since calls were made of
\* the closures of earlier runs.
DemoMatching ==
    {k \in (demo.since + 1)..Len(calls["handle_response"]) :
        LET message == calls["handle_response"][k].data
        IN  /\ message.action = "notify"
            /\ Get(message.payload, "request_id", NoneVal) = "demo-request"}

\* result_future is done.
DemoResultSet == DemoMatching # {}

\* What run_prompt displays: the message whose payload set result_future (the
\* first matching one, `if not result_future.done()`), 0 for the time-out
\* warning.
DemoShown ==
    IF DemoResultSet
    THEN calls["handle_response"]
             [CHOOSE k \in DemoMatching : \A j \in DemoMatching : k <= j].mid
    ELSE 0

DemoInit ==
    /\ CoordInit
    /\ PipeIdle
    /\ BusInit
    /\ demo = [DemoOff EXCEPT !.pc = "start_bus"]
    /\ cli = ClientOff
    /\ multicoder = MultiCoderOff
    /\ launcher = LauncherOff
    /\ LibsOff

\* main: await message_bus.start()
DemoStartsBus ==
    /\ demo.pc = "start_bus"
    /\ StartWithin(MaxLoops)
    /\ demo' = [demo EXCEPT !.pc = "start_agent", !.at = 1]
    /\ UNCHANGED <<coordVars, pipeVars, cli, multicoder, launcher, libVars>>

\* main: await <agent>.start().  Agent.start (base.py 66-83) connects to the
\* broker, subscribes the agent's pubsub to its channels there and creates
\* the _listen task; it raises when the broker cannot be reached, which ends
\* main.  The in-process bus is not touched.
DemoStartsAgent ==
    /\ demo.pc = "start_agent"
    /\ \E reached \in BOOLEAN :
          LET a == DemoStartOrder[demo.at]
          IN  IF reached
              THEN /\ listening' = listening \cup {a}
                   /\ inbox' = [b \in DOMAIN inbox \cup {a} |->
                                    IF b \in DOMAIN inbox THEN inbox[b] ELSE <<>>]
                   /\ demo' = IF demo.at < Len(DemoStartOrder)
                              THEN [demo EXCEPT !.at = @ + 1]
                              ELSE [demo EXCEPT !.pc = "subscribe", !.at = 1]
              ELSE /\ demo' = [demo EXCEPT !.pc = "crashed"]
                   /\ UNCHANGED <<listening, inbox>>
    /\ UNCHANGED <<coordVars, responses, submitted, foreign, busVars, cli, multicoder, launcher, libVars>>

\* run_prompt: await message_bus.subscribe("multicoder:responses", handle_response)
DemoSubscribes ==
    /\ demo.pc = "subscribe"
    /\ subscriptions' = MessageBus_subscribe(subscriptions, RESPONSES, "handle_response")
    /\ demo' = [demo EXCEPT !.pc = "publish",
                             !.since = Len(calls["handle_response"])]
    /\ UNCHANGED <<message_queue, stop_event, loop_task, loops, stoppers, sent,
                   calls, dequeued>>
    /\ UNCHANGED <<coordVars, pipeVars, cli, multicoder, launcher, libVars>>

\* run_prompt: await message_bus.publish("multicoder:requests", ...)
DemoPublishes ==
    /\ demo.pc = "publish"
    /\ PublishCall(DemoRequest(DemoPrompts[demo.at]), FALSE)
    /\ demo' = [demo EXCEPT !.pc = "wait"]
    /\ UNCHANGED <<subscriptions, stop_event, loop_task, loops, stoppers, calls,
                   dequeued>>
    /\ UNCHANGED <<coordVars, pipeVars, cli, multicoder, launcher, libVars>>

\* run_prompt: await asyncio.wait_for(result_future, timeout=10.0) returns the
\* payload or raises TimeoutError; the result is displayed or the warning is.
DemoWaitEnds ==
    /\ demo.pc = "wait"
    /\ demo' = [demo EXCEPT !.pc = IF DemoResultSet THEN "unsubscribe"
                                   ELSE "timed_out",
                             !.shown = Append(@, DemoShown)]
    /\ UNCHANGED <<coordVars, pipeVars, busVars, cli, multicoder, launcher, libVars>>

\* run_prompt, finally: await message_bus.unsubscribe(...); main goes on to the
\* next prompt or to its own finally.
DemoUnsubscribes ==
    /\ demo.pc \in {"unsubscribe", "timed_out"}
    /\ subscriptions' = MessageBus_unsubscribe(subscriptions, RESPONSES, "handle_response")
    /\ demo' = IF demo.at < Len(DemoPrompts)
               THEN [demo EXCEPT !.pc = "subscribe", !.at = @ + 1]
               ELSE [demo EXCEPT !.pc = "stop_agent", !.at = 1]
    /\ UNCHANGED <<message_queue, stop_event, loop_task, loops, stoppers, sent,
                   calls, dequeued>>
    /\ UNCHANGED <<coordVars, pipeVars, cli, multicoder, launcher, libVars>>

\* main, finally: await <agent>.stop().  Agent.stop (base.py 89-100)
\* unsubscribes and closes the pubsub, which ends the agent's listen loop.
DemoStopsAgent ==
    /\ demo.pc = "stop_agent"
    /\ LET a == DemoStopOrder[demo.at]
       IN  /\ listening' = listening \ {a}
           /\ inbox' = [b \in DOMAIN inbox \ {a} |-> inbox[b]]
    /\ demo' = IF demo.at < Len(DemoStopOrder)
               THEN [demo EXCEPT !.at = @ + 1]
               ELSE [demo EXCEPT !.pc = "stop_bus", !.at = 0]
    /\ UNCHANGED <<coordVars, responses, submitted, foreign, busVars, cli, multicoder, launcher, libVars>>

\* main, finally: await message_bus.stop(), up to its await.
DemoStopsBus ==
    /\ demo.pc = "stop_bus"
    /\ StopBeginWithin(MaxStoppers, Outside)
    /\ demo' = [demo EXCEPT !.pc = "stopping_bus"]
    /\ UNCHANGED <<subscriptions, message_queue, loop_task, loops, sent, calls,
                   dequeued>>
    /\ UNCHANGED <<coordVars, pipeVars, cli, multicoder, launcher, libVars>>

\* message_bus.stop() returns and main ends.
DemoBusStopped ==
    /\ demo.pc = "stopping_bus"
    /\ StopFinish
    /\ demo' = [demo EXCEPT !.pc = "done"]
    /\ UNCHANGED <<coordVars, pipeVars, cli, multicoder, launcher, libVars>>

\* The demonstration with its bus loop, the agents' listen loops, and the
\* clients of the broker the agents are connected to.
DemoNext ==
    \/ DemoStartsBus
    \/ DemoStartsAgent
    \/ DemoSubscribes
    \/ DemoPublishes
    \/ DemoWaitEnds
    \/ DemoUnsubscribes
    \/ DemoStopsAgent
    \/ DemoStopsBus
    \/ DemoBusStopped
    \/ ProcessMessages /\ UNCHANGED <<coordVars, pipeVars, driverVars>>
    \/ ClientSubmits /\ UNCHANGED <<busVars, driverVars>>
    \/ CoordinatorListens /\ UNCHANGED <<busVars, driverVars>>
    \/ GeneratorListens /\ UNCHANGED <<busVars, driverVars>>
    \/ ValidatorListens /\ UNCHANGED <<busVars, driverVars>>

DemoSpec == DemoInit /\ [][DemoNext]_vars

-----------------------------------------------------------------------------
(* The bus-bound client (src/cli/mcp_client.py).  cli.pc is where run and  *)
(* process_prompt are; cli.request_id is the id of the prompt in progress, *)
(* cli.issued the number of ids generated, cli.returned the ids of the     *)
(* prompts process_prompt has returned for.  _response_events maps an id   *)
(* to whether its asyncio.Event is set.  cli.outcome maps an id to what     *)
(* wait_for_response returned for it; cli.heard maps an id to the payload  *)
(* of the latest notify naming it that _handle_response ran on while the   *)
(* id was registered, and to where process_prompt was then.                *)

\* MCPClient.__init__ has run; run has not called initialize yet.
ClientInit ==
    /\ CoordInit
    /\ PipeIdle
    /\ BusInit
    /\ demo = DemoOff
    /\ cli = [ClientOff EXCEPT !.pc = "created"]
    /\ multicoder = MultiCoderOff
    /\ launcher = LauncherOff
    /\ LibsOff

\* MCPClient.initialize: await message_bus.start()
ClientInitialize ==
    /\ cli.pc = "created"
    /\ StartWithin(MaxLoops)
    /\ cli' = [cli EXCEPT !.pc = "started"]
    /\ UNCHANGED <<coordVars, pipeVars, demo, multicoder, launcher, libVars>>

\* MCPClient.initialize: await message_bus.subscribe(..., self._handle_response)
ClientSubscribes ==
    /\ cli.pc = "started"
    /\ subscriptions' = MessageBus_subscribe(subscriptions, RESPONSES, "_handle_response")
    /\ cli' = [cli EXCEPT !.pc = "idle"]
    /\ UNCHANGED <<message_queue, stop_event, loop_task, loops, stoppers, sent,
                   calls, dequeued>>
    /\ UNCHANGED <<coordVars, pipeVars, demo, multicoder, launcher, libVars>>

\* process_prompt up to the return of send_request: a fresh id, the two
\* registrations, the publish on multicoder:requests.
MCPClient_send_request ==
    /\ cli.pc = "idle"
    /\ cli.issued < MaxRequests
    /\ \E prompt \in {PromptFact} :
          LET request_id == Uuid(cli.issued + 1)
          IN  /\ PublishCall([channel |-> REQUESTS, sender |-> "cli",
                               action |-> "process",
                               payload |-> [request_id |-> request_id,
                                            prompt |-> prompt]], FALSE)
              /\ cli' = [cli EXCEPT
                            !.pc = "sent",
                            !.request_id = request_id,
                            !.issued = @ + 1,
                            !._waiting_for_responses = Put(@, request_id, NoneVal),
                            !._response_events = Put(@, request_id, FALSE)]
    /\ UNCHANGED <<subscriptions, stop_event, loop_task, loops, stoppers, calls,
                   dequeued>>
    /\ UNCHANGED <<coordVars, pipeVars, demo, multicoder, launcher, libVars>>

\* process_prompt between send_request and wait_for_response: the two print
\* calls (the second one flushes).  A print that raises (standard output is
\* closed, or the prompt cannot be encoded for it) is caught by the `except
\* Exception` of process_prompt, which logs it and returns.
MCPClient_process_prompt_prints ==
    /\ cli.pc = "sent"
    /\ \E printed \in BOOLEAN :
          cli' = IF printed
                 THEN [cli EXCEPT !.pc = "waiting"]
                 ELSE [cli EXCEPT !.pc = "idle",
                                  !.returned = @ \cup {cli.request_id}]
    /\ UNCHANGED <<coordVars, pipeVars, busVars, demo, multicoder, launcher, libVars>>

\* wait_for_response, finally: both registrations of the id are deleted.
MCPClient_clean_up(c, request_id) ==
    [c EXCEPT !._waiting_for_responses = Del(@, request_id),
              !._response_events = Del(@, request_id)]

\* wait_for_response when the event of the id is set: the response is
\* returned, the registration cleaned up, the result displayed.
MCPClient_wait_for_response_gets ==
    /\ cli.pc = "waiting"
    /\ cli.request_id \in DOMAIN cli._waiting_for_responses
    /\ cli._response_events[cli.request_id]
    /\ cli' = [MCPClient_clean_up(cli, cli.request_id) EXCEPT
                  !.pc = "idle", !.returned = @ \cup {cli.request_id},
                  !.outcome = Put(@, cli.request_id,
                                  [timed_out |-> FALSE,
                                   response |-> cli._waiting_for_responses[cli.request_id]])]
    /\ UNCHANGED <<coordVars, pipeVars, busVars, demo, multicoder, launcher, libVars>>

\* wait_for_response when the timeout expires first: None is returned, the
\* registration cleaned up, the warning displayed.
MCPClient_wait_for_response_times_out ==
    /\ cli.pc = "waiting"
    /\ cli.request_id \in DOMAIN cli._waiting_for_responses
    /\ ~cli._response_events[cli.request_id]
    /\ cli' = [MCPClient_clean_up(cli, cli.request_id) EXCEPT
                  !.pc = "idle", !.returned = @ \cup {cli.request_id},
                  !.outcome = Put(@, cli.request_id,
                                  [timed_out |-> TRUE, response |-> NoneVal])]
    /\ UNCHANGED <<coordVars, pipeVars, busVars, demo, multicoder, launcher, libVars>>

\* Mutant: the payload is recorded but the event is not set.
MCPClient_handle_response_silent(c, message) ==
    LET payload == Get(message, "payload", EmptyMap)
        request_id == Get(payload, "request_id", NoneVal)
    IN  IF /\ Get(message, "action", NoneVal) = "notify"
           /\ request_id \in DOMAIN c._waiting_for_responses
        THEN [c EXCEPT !._waiting_for_responses = Put(@, request_id, payload)]
        ELSE c

\* MCPClient._handle_response on the data of a message.
MCPClient_handle_response(c, message) ==
    LET payload == Get(message, "payload", EmptyMap)
        request_id == Get(payload, "request_id", NoneVal)
    IN  IF /\ Get(message, "action", NoneVal) = "notify"
           /\ request_id \in DOMAIN c._waiting_for_responses
        THEN [c EXCEPT
                !._waiting_for_responses = Put(@, request_id, payload),
                !._response_events =
                    IF request_id \in DOMAIN @ THEN Put(@, request_id, TRUE) ELSE @]
        ELSE c

\* The task the loop created for _handle_response runs.
ClientHandlesResponse ==
    /\ \E l \in 1..Len(loops) :
          /\ loops[l].pc = "gather"
          /\ "_handle_response" \in DOMAIN loops[l].tasks
          /\ loops[l].tasks["_handle_response"] = "pending"
          /\ LET call == CHOOSE c \in {calls["_handle_response"][k] :
                                          k \in 1..Len(calls["_handle_response"])} :
                              c.mid = loops[l].mid
                 request_id == call.data.payload.request_id
             IN  cli' = [MCPClient_handle_response(cli, call.data) EXCEPT
                           !.heard =
                               IF /\ call.data.action = "notify"
                                  /\ request_id \in DOMAIN cli._waiting_for_responses
                               THEN Put(@, request_id,
                                        [payload |-> call.data.payload, at |-> cli.pc])
                               ELSE @]
          /\ loops' = [loops EXCEPT ![l].tasks["_handle_response"] = "returned"]
    /\ UNCHANGED <<subscriptions, message_queue, stop_event, loop_task, stoppers,
                   sent, calls, dequeued>>
    /\ UNCHANGED <<coordVars, pipeVars, demo, multicoder, launcher, libVars>>

\* Whatever answers on the bus: for a request published, a notify on
\* multicoder:responses that names the id of the client's latest request
\* (registered, or cleaned up already) or an id the client never generated.
BusAnswers ==
    /\ Len(sent) < 2 * cli.issued
    /\ \E request_id \in {cli.request_id, Uuid(0)}, status \in {"completed", "failed"} :
          PublishCall([channel |-> RESPONSES, sender |-> "coordinator",
                       action |-> "notify",
                       payload |-> [request_id |-> request_id, status |-> status]],
                      FALSE)
    /\ UNCHANGED <<subscriptions, stop_event, loop_task, loops, stoppers, calls,
                   dequeued>>
    /\ UNCHANGED <<coordVars, pipeVars, driverVars>>

\* The delivery loop of the client's bus, the callback's run apart.
ClientBusLoop ==
    \E l \in 1..Len(loops) :
        LoopCheck(l) \/ LoopTimeout(l) \/ LoopGet(l) \/ LoopGathered(l)

\* MCPClient.shutdown, up to the await of message_bus.stop.
ClientShutdown ==
    /\ cli.pc = "idle"
    /\ subscriptions' = MessageBus_unsubscribe(subscriptions, RESPONSES, "_handle_response")
    /\ StopBeginWithin(MaxStoppers, Outside)
    /\ cli' = [cli EXCEPT !.pc = "shutting_down"]
    /\ UNCHANGED <<message_queue, loop_task, loops, sent, calls, dequeued>>
    /\ UNCHANGED <<coordVars, pipeVars, demo, multicoder, launcher, libVars>>

\* message_bus.stop returns: run ends.
ClientStopped ==
    /\ cli.pc = "shutting_down"
    /\ StopFinish
    /\ cli' = [cli EXCEPT !.pc = "closed"]
    /\ UNCHANGED <<coordVars, pipeVars, demo, multicoder, launcher, libVars>>

ClientNext ==
    \/ ClientInitialize
    \/ ClientSubscribes
    \/ MCPClient_send_request
    \/ MCPClient_process_prompt_prints
    \/ MCPClient_wait_for_response_gets
    \/ MCPClient_wait_for_response_times_out
    \/ ClientHandlesResponse
    \/ BusAnswers
    \/ ClientBusLoop /\ UNCHANGED <<coordVars, pipeVars, driverVars>>
    \/ ClientShutdown
    \/ ClientStopped

ClientSpec == ClientInit /\ [][ClientNext]_vars

-----------------------------------------------------------------------------
(* The broker-bound client (src/cli/multicoder.py) with the three agents   *)
(* over the broker.  multicoder.pc is where process_prompt and             *)
(* wait_for_response are; sent_at and subscribed_at are the numbers of     *)
(* messages published on multicoder:responses when send_request returned   *)
(* and when wait_for_response subscribed; read is the number of messages   *)
(* its subscription has yielded, polls the number of completed polls.      *)

\* MultiCoderCLI.run has created the client; the agents are running.
MultiCoderInit ==
    /\ CoordInit
    /\ listening = Agents
    /\ inbox = [a \in Agents |-> <<>>]
    /\ responses = <<>>
    /\ submitted = <<>>
    /\ foreign = 0
    /\ BusInit
    /\ demo = DemoOff
    /\ cli = ClientOff
    /\ multicoder = [MultiCoderOff EXCEPT !.pc = "idle"]
    /\ launcher = LauncherOff
    /\ LibsOff

\* process_prompt up to the return of send_request: a fresh id, the publish on
\* multicoder:requests of the broker.
MultiCoderCLI_send_request ==
    /\ multicoder.pc = "idle"
    /\ ClientSubmits
    /\ multicoder' = [multicoder EXCEPT !.pc = "sent",
                                        !.request_id = Uuid(Len(submitted) + 1),
                                        !.sent_at = Len(responses)]
    /\ UNCHANGED <<busVars, demo, cli, launcher, libVars>>

\* process_prompt between send_request and wait_for_response: the two print
\* calls; one that raises is caught by `except Exception`, and process_prompt
\* returns.
MultiCoderCLI_process_prompt_prints ==
    /\ multicoder.pc = "sent"
    /\ \E printed \in BOOLEAN :
          multicoder' = [multicoder EXCEPT !.pc = IF printed THEN "wait" ELSE "idle"]
    /\ UNCHANGED <<coordVars, pipeVars, busVars, demo, cli, launcher, libVars>>

\* wait_for_response: await self.pubsub.subscribe(self.response_channel).  The
\* subscription yields what is published on the channel from now on.
MultiCoderCLI_subscribes ==
    /\ multicoder.pc = "wait"
    /\ multicoder' = [multicoder EXCEPT !.pc = "check",
                                        !.subscribed_at = Len(responses),
                                        !.read = 0,
                                        !.polls = 0]
    /\ UNCHANGED <<coordVars, pipeVars, busVars, demo, cli, launcher, libVars>>

\* wait_for_response returns `response` (None at the deadline): the finally
\* clause unsubscribes.
MultiCoderCLI_returns(timed_out, response) ==
    [multicoder EXCEPT !.pc = "idle",
                       !.outcome = Put(@, multicoder.request_id,
                                       [timed_out |-> timed_out,
                                        response |-> response])]

\* `while asyncio.get_event_loop().time() < end_time`: the deadline may have
\* passed at any test, and has passed after MaxPolls polls.
MultiCoderCLI_checks_deadline ==
    /\ multicoder.pc = "check"
    /\ \E in_time \in BOOLEAN :
          /\ in_time => multicoder.polls < MaxPolls
          /\ multicoder' = IF in_time
                           THEN [multicoder EXCEPT !.pc = "poll"]
                           ELSE MultiCoderCLI_returns(TRUE, NoneVal)
    /\ UNCHANGED <<coordVars, pipeVars, busVars, demo, cli, launcher, libVars>>

\* The message the subscription yields next, if there is one.
MultiCoderCLI_pending ==
    multicoder.subscribed_at + multicoder.read < Len(responses)

\* One poll: get_message(timeout=1) yields the next message of the
\* subscription or None; the payload of a message that names the request id
\* is returned, otherwise the loop sleeps and tests the deadline again.
MultiCoderCLI_polls ==
    /\ multicoder.pc = "poll"
    /\ IF MultiCoderCLI_pending
       THEN LET data == responses[multicoder.subscribed_at + multicoder.read + 1].data
                payload == Get(data, "payload", EmptyMap)
            IN  IF Get(payload, "request_id", NoneVal) = multicoder.request_id
                THEN multicoder' = [MultiCoderCLI_returns(FALSE, payload)
                                       EXCEPT !.read = @ + 1]
                ELSE multicoder' = [multicoder EXCEPT !.pc = "check",
                                                     !.read = @ + 1,
                                                     !.polls = @ + 1]
       ELSE multicoder' = [multicoder EXCEPT !.pc = "check", !.polls = @ + 1]
    /\ UNCHANGED <<coordVars, pipeVars, busVars, demo, cli, launcher, libVars>>

MultiCoderNext ==
    \/ MultiCoderCLI_send_request
    \/ MultiCoderCLI_process_prompt_prints
    \/ MultiCoderCLI_subscribes
    \/ MultiCoderCLI_checks_deadline
    \/ MultiCoderCLI_polls
    \/ CoordinatorListens /\ UNCHANGED <<busVars, driverVars>>
    \/ GeneratorListens /\ UNCHANGED <<busVars, driverVars>>
    \/ ValidatorListens /\ UNCHANGED <<busVars, driverVars>>

MultiCoderSpec == MultiCoderInit /\ [][MultiCoderNext]_vars

-----------------------------------------------------------------------------
(* The launchers (src/__main__.py): run_all, run_coordinator, run_generator *)
(* and run_validator.  launcher.component is the --component argument,      *)
(* launcher.pc where the launcher is, launcher.started the components whose *)
(* start() has returned, in order, and launcher.stopped the components      *)
(* whose stop() has returned, in order.                                     *)

\* __main__.py 155: the choices of --component.
Components == {"all", "coordinator", "generator", "validator"}

\* The agents a launcher starts, in the order of its `await <agent>.start()`
\* (run_all 121-123; run_coordinator 36, run_generator 63, run_validator 90).
LauncherStartOrder(component) ==
    CASE component = "all" -> <<"coordinator", "code_generator", "code_validator">>
      [] component = "coordinator" -> <<"coordinator">>
      [] component = "generator" -> <<"code_generator">>
      [] component = "validator" -> <<"code_validator">>

\* The agents a launcher stops in its finally, in the order of its
\* `await <agent>.stop()` (run_all 135-137; 45, 72, 99).
LauncherStopOrder(component) ==
    CASE component = "all" -> <<"code_validator", "code_generator", "coordinator">>
      [] component = "coordinator" -> <<"coordinator">>
      [] component = "generator" -> <<"code_generator">>
      [] component = "validator" -> <<"code_validator">>

\* main 177-184 has chosen the launcher of a component; nothing has started.
LauncherInit ==
    /\ CoordInit
    /\ PipeIdle
    /\ BusInit
    /\ demo = DemoOff
    /\ cli = ClientOff
    /\ multicoder = MultiCoderOff
    /\ LibsOff
    /\ \E component \in Components :
          launcher = [LauncherOff EXCEPT !.component = component,
                                         !.pc = "start_bus"]

\* await message_bus.start() (32, 59, 86, 118): before the try.
Launcher_starts_bus ==
    /\ launcher.pc = "start_bus"
    /\ StartWithin(MaxLoops)
    /\ launcher' = [launcher EXCEPT !.pc = "start_agent", !.at = 1,
                                    !.started = Append(@, "bus")]
    /\ UNCHANGED <<coordVars, pipeVars, demo, cli, multicoder, libVars>>

\* await <agent>.start() (36, 63, 90, 121-123): before the try.  Agent.start
\* (base.py 66-83) awaits the broker: it returns, or raises because the broker
\* cannot be reached, or is cancelled there by the operator's interruption.
\* Nothing encloses the call, so in the last two cases the exception leaves
\* the launcher and main.
Launcher_starts_agent ==
    /\ launcher.pc = "start_agent"
    /\ \E result \in {"returned", "raised", "cancelled"} :
          LET a == LauncherStartOrder(launcher.component)[launcher.at]
          IN  IF result = "returned"
              THEN /\ listening' = listening \cup {a}
                   /\ inbox' = [b \in DOMAIN inbox \cup {a} |->
                                    IF b \in DOMAIN inbox THEN inbox[b] ELSE <<>>]
                   /\ launcher' =
                        [launcher EXCEPT
                           !.started = Append(@, a),
                           !.at = IF launcher.at < Len(LauncherStartOrder(launcher.component))
                                  THEN @ + 1 ELSE 1,
                           !.pc = IF launcher.at < Len(LauncherStartOrder(launcher.component))
                                  THEN "start_agent" ELSE "running"]
              ELSE /\ launcher' = [launcher EXCEPT !.pc = "exited"]
                   /\ UNCHANGED <<listening, inbox>>
    /\ UNCHANGED <<coordVars, responses, submitted, foreign, busVars, demo, cli,
                   multicoder, libVars>>

\* The operator's interruption reaches `await asyncio.sleep(1)` inside the try
\* (40-43, 67-70, 94-97, 129-132): the except prints, the finally begins.
Launcher_interrupted ==
    /\ launcher.pc = "running"
    /\ launcher' = [launcher EXCEPT !.pc = "stop_agent", !.at = 1]
    /\ UNCHANGED <<coordVars, pipeVars, busVars, demo, cli, multicoder, libVars>>

\* finally: await <agent>.stop() (45, 72, 99, 135-137).
Launcher_stops_agent ==
    /\ launcher.pc = "stop_agent"
    /\ LET a == LauncherStopOrder(launcher.component)[launcher.at]
       IN  /\ listening' = listening \ {a}
           /\ inbox' = [b \in DOMAIN inbox \ {a} |-> inbox[b]]
           /\ launcher' =
                [launcher EXCEPT
                   !.stopped = Append(@, a),
                   !.at = IF launcher.at < Len(LauncherStopOrder(launcher.component))
                          THEN @ + 1 ELSE 0,
                   !.pc = IF launcher.at < Len(LauncherStopOrder(launcher.component))
                          THEN "stop_agent" ELSE "stop_bus"]
    /\ UNCHANGED <<coordVars, responses, submitted, foreign, busVars, demo, cli,
                   multicoder, libVars>>

\* finally: await message_bus.stop() (46, 73, 100, 140), up to its await.
Launcher_stops_bus ==
    /\ launcher.pc = "stop_bus"
    /\ StopBeginWithin(MaxStoppers, Outside)
    /\ launcher' = [launcher EXCEPT !.pc = "stopping_bus"]
    /\ UNCHANGED <<subscriptions, message_queue, loop_task, loops, sent, calls,
                   dequeued>>
    /\ UNCHANGED <<coordVars, pipeVars, demo, cli, multicoder, libVars>>

\* message_bus.stop() returns and the launcher returns.
Launcher_bus_stopped ==
    /\ launcher.pc = "stopping_bus"
    /\ StopFinish
    /\ launcher' = [launcher EXCEPT !.pc = "exited",
                                    !.stopped = Append(@, "bus")]
    /\ UNCHANGED <<coordVars, pipeVars, demo, cli, multicoder, libVars>>

\* A launcher with the loop of its bus, the listen loops of its agents and
\* the clients of the broker, for as long as its process lives.
LauncherNext ==
    \/ Launcher_starts_bus
    \/ Launcher_starts_agent
    \/ Launcher_interrupted
    \/ Launcher_stops_agent
    \/ Launcher_stops_bus
    \/ Launcher_bus_stopped
    \/ /\ launcher.pc # "exited"
       /\ \/ ProcessMessages /\ UNCHANGED <<coordVars, pipeVars, driverVars>>
          \/ ClientSubmits /\ UNCHANGED <<busVars, driverVars>>
          \/ CoordinatorListens /\ UNCHANGED <<busVars, driverVars>>
          \/ GeneratorListens /\ UNCHANGED <<busVars, driverVars>>
          \/ ValidatorListens /\ UNCHANGED <<busVars, driverVars>>

LauncherSpec == LauncherInit /\ [][LauncherNext]_vars

-----------------------------------------------------------------------------
(* The generator and the validator on bounded inputs: generate messages    *)
(* with every prompt of up to MaxWords words, validate messages with every *)
(* snippet of up to MaxLines lines.                                        *)

\* The words of the prompts: the French words the pattern looks for, in
\* several cases, their English counterparts, other words and the newline.
Words == {"Inverse", "inverser", "CHAÎNE", "chaine", "Reverse", "String",
          "une", "factorielle", "\n"}

BoundedPrompts == UNION {[1..n -> Words] : n \in 1..MaxWords}

\* Line lengths on both sides of the limit of 79.
LineLengths == {0, 79, 80, 85}

BoundedLines ==
    UNION {[1..n -> [len : LineLengths, wildcard : BOOLEAN]] : n \in 1..MaxLines}

\* What ast.walk finds in a snippet that parses.
NodeLists ==
    {<<ModuleNode>>,
     <<ModuleNode, [kind |-> "FunctionDef", name |-> "f", doc |-> TRUE]>>,
     <<ModuleNode, [kind |-> "FunctionDef", name |-> "f", doc |-> FALSE]>>,
     <<ModuleNode, [kind |-> "ClassDef", name |-> "K", doc |-> FALSE]>>}

\* Snippets that parse, and snippets that do not (these are not empty and
\* have no tree).
BoundedCodes ==
    {[parses |-> TRUE, lines |-> l, nodes |-> n] : l \in BoundedLines, n \in NodeLists}
        \cup {[parses |-> FALSE, lines |-> l, nodes |-> <<>>] :
                l \in {x \in BoundedLines : \E i \in 1..Len(x) : x[i].len > 0}}

\* The messages the coordinator publishes to the two agents.
AgentsInputs ==
    {Envelope(GENERATOR, "coordinator", "generate",
              [request_id |-> id, prompt |-> prompt]) :
        id \in Ids, prompt \in BoundedPrompts}
    \cup {Envelope(VALIDATOR, "coordinator", "validate",
                   [request_id |-> id, code |-> code]) :
            id \in Ids, code \in BoundedCodes}

\* One message is about to be yielded by the pubsub of the agent subscribed
\* to its channel.
AgentsInit ==
    /\ pending_requests = EmptyMap
    /\ agent = "none"
    /\ last \in AgentsInputs
    /\ prev = EmptyMap
    /\ out = <<>>
    /\ exc = "none"
    /\ trans = <<>>
    /\ handled = <<>>
    /\ published = <<>>
    /\ PipeIdle
    /\ BusInit
    /\ DriversOff

\* The generator's listen loop hands process_message the generate message.
GeneratorGenerates ==
    /\ agent = "none"
    /\ last.channel = GENERATOR
    /\ HandleStateless("code_generator", last,
                       CodeGenerator_process_message(last.channel, last.data))
    /\ UNCHANGED <<handled, published, pipeVars, busVars, driverVars>>

\* The validator's listen loop hands process_message the validate message.
ValidatorValidates ==
    /\ agent = "none"
    /\ last.channel = VALIDATOR
    /\ HandleStateless("code_validator", last,
                       CodeValidator_process_message(last.channel, last.data))
    /\ UNCHANGED <<handled, published, pipeVars, busVars, driverVars>>

AgentsNext == GeneratorGenerates \/ ValidatorValidates

AgentsSpec == AgentsInit /\ [][AgentsNext]_vars

-----------------------------------------------------------------------------
(* The end-to-end scenario: the three agents listening on the broker, and  *)
(* clients that submit the reversal prompt in English and in French.       *)

\* "reverse a string"
PromptReverse == <<"reverse", "a", "string">>

ScenarioPrompts == {PromptReverse, PromptInverse}

ScenarioInit ==
    /\ CoordInit
    /\ listening = Agents
    /\ inbox = [a \in Agents |-> <<>>]
    /\ responses = <<>>
    /\ submitted = <<>>
    /\ foreign = 0
    /\ BusInit
    /\ DriversOff

\* send_request of a client (multicoder.py 73-87) with a prompt of the
\* scenario: a process message on multicoder:requests.
ScenarioSubmits ==
    /\ Len(submitted) < MaxRequests
    /\ \E prompt \in ScenarioPrompts :
          LET id == Uuid(Len(submitted) + 1)
          IN  /\ submitted' = Append(submitted,
                                     [request_id |-> id, prompt |-> prompt,
                                      seen |-> Len(responses)])
              /\ inbox' = Deliver(inbox, <<ProcessMsg(id, prompt)>>)
    /\ UNCHANGED <<coordVars, listening, responses, foreign>>

ScenarioNext ==
    \/ ScenarioSubmits /\ UNCHANGED <<busVars, driverVars>>
    \/ CoordinatorListens /\ UNCHANGED <<busVars, driverVars>>
    \/ GeneratorListens /\ UNCHANGED <<busVars, driverVars>>
    \/ ValidatorListens /\ UNCHANGED <<busVars, driverVars>>

ScenarioSpec == ScenarioInit /\ [][ScenarioNext]_vars

-----------------------------------------------------------------------------
(* The pipeline with a record of everything the agents publish: `published` *)
(* is the bag of the messages the agents handed to the broker.              *)

\* process_message of agent a on the message env, the coordinator holding pend.
ProcessMessageOf(a, pend, env) ==
    IF a = "coordinator"
    THEN Coordinator_process_message(pend, env.channel, env.data)
    ELSE LET r == IF a = "code_generator"
                  THEN CodeGenerator_process_message(env.channel, env.data)
                  ELSE CodeValidator_process_message(env.channel, env.data)
         IN  Outcome(pend, r.out, <<>>, r.exc)

\* One turn of Agent._listen of agent a (base.py 107-117), what it published
\* being recorded.
ListensRecorded(a) ==
    /\ a \in listening
    /\ inbox[a] # <<>>
    /\ LET r == ProcessMessageOf(a, pending_requests, Head(inbox[a]))
       IN  /\ pending_requests' = r.pending
           /\ inbox' = Deliver([inbox EXCEPT ![a] = Tail(@)], r.out)
           /\ responses' = responses \o OnChannels(r.out, {RESPONSES})
           /\ listening' = IF r.exc = "none" THEN listening ELSE listening \ {a}
           /\ published' = published (+) SetToBag({r.out[k] : k \in 1..Len(r.out)})
    /\ UNCHANGED <<submitted, foreign, agent, last, prev, out, exc, trans, handled>>

RecordedPipeNext ==
    \/ ClientSubmits /\ UNCHANGED <<busVars, driverVars>>
    \/ ListensRecorded("coordinator") /\ UNCHANGED <<busVars, driverVars>>
    \/ ListensRecorded("code_generator") /\ UNCHANGED <<busVars, driverVars>>
    \/ ListensRecorded("code_validator") /\ UNCHANGED <<busVars, driverVars>>

RecordedPipeSpec == PipeInit /\ [][RecordedPipeNext]_vars

-----------------------------------------------------------------------------
(* Claims about the pipeline.                                               *)

\* The requests submitted so far with request id `id`.
SubmittedWith(id) == SelectSeq(submitted, LAMBDA q : q.request_id = id)

\* The code and verdict the pipeline owes to a prompt: the reversal function for
\* the prompt about reversing a string, the placeholder otherwise, both valid.
OwedResult(prompt) ==
    IF prompt = PromptInverse
    THEN [code |-> ReverseCode, valid |-> TRUE]
    ELSE [code |-> GenericCode, valid |-> TRUE]

\* The pending record of id differs between pend and next: created, rewritten
\* or deleted.
RecordChanged(pend, next, id) ==
    \/ (id \in DOMAIN pend) # (id \in DOMAIN next)
    \/ /\ id \in DOMAIN pend
       /\ id \in DOMAIN next
       /\ pend[id] # next[id]

\* The request id named by the message the coordinator's loop yields next.
NextForCoordinator ==
    IF inbox["coordinator"] # <<>>
    THEN RequestIdOf(Head(inbox["coordinator"]))
    ELSE NoneVal

\* A step changes the pending record of B only by handling a message naming B.
FrameStep ==
    \A B \in ClientIds :
        RecordChanged(pending_requests, pending_requests', B)
        => /\ NextForCoordinator = B
           /\ inbox'["coordinator"] # inbox["coordinator"]

\* Every notify carries the code and verdict owed to the prompt of its request.
OwnResult ==
    \A k \in 1..Len(responses) :
        LET payload == responses[k].data.payload
            mine == SubmittedWith(payload.request_id)
        IN  /\ Len(mine) = 1
            /\ payload.result = OwedResult(mine[1].prompt)
            /\ payload.status = "completed"

\* C6. Requests do not interfere.  For distinct request ids in flight together,
\* in every interleaving of their messages, a step changes the pending record
\* of B (present or absent, prompt, status, code, result) only when it is the
\* handling of a message that names B; and every notify carries the code and
\* verdict owed to the prompt of its own request.
C6_NoInterference == [][FrameStep]_vars /\ []OwnResult

\* Two requests with different prompts were in flight together: the first has
\* been notified with its own code while the second, submitted before any
\* response, is validating its own.
C6_Witness ==
    /\ Len(submitted) >= 2
    /\ submitted[1].prompt = PromptInverse
    /\ submitted[2].prompt = PromptFact
    /\ submitted[2].seen = 0
    /\ Len(responses) = 1
    /\ responses[1].data.payload.request_id = Uuid(1)
    /\ Uuid(2) \in DOMAIN pending_requests
    /\ pending_requests[Uuid(2)]["status"] = "validating"
    /\ pending_requests[Uuid(2)]["code"] = GenericCode

\* Request i was submitted with a non-empty request_id and prompt.
Accepted(i) == submitted[i].request_id # "" /\ submitted[i].prompt # EmptyPrompt

\* A notify for request i was published after request i was submitted.
NotifiedSince(i) ==
    \E k \in (submitted[i].seen + 1)..Len(responses) :
        /\ responses[k].channel = RESPONSES
        /\ responses[k].data.action = "notify"
        /\ responses[k].data.payload.request_id = submitted[i].request_id

\* Every request submitted so far with a non-empty request_id and prompt has been
\* answered by a notify published after it, and the coordinator holds no record.
AllAnswered ==
    /\ \A i \in 1..Len(submitted) : Accepted(i) => NotifiedSince(i)
    /\ pending_requests = EmptyMap

\* C7. With the three agents started and every published message delivered,
\* every process request with a non-empty request_id and prompt leads to a
\* notify for its request_id on multicoder:responses, published after it, and
\* the coordinator then holds no record for it: again and again every such
\* request submitted so far has its notify and pending_requests is empty.
C7_PipelineLiveness == []<>AllAnswered

\* Two requests were submitted and each was notified; nothing is pending.
C7_Witness ==
    /\ Len(submitted) >= 2
    /\ submitted[1].request_id # submitted[2].request_id
    /\ NotifiedSince(1)
    /\ NotifiedSince(2)
    /\ pending_requests = EmptyMap

-----------------------------------------------------------------------------
(* Claims about the in-process bus.                                        *)

\* Callback cb has been called with exactly the channel and the
\* {sender, action, payload} of the mid-th published message.
CalledWith(cls, cb, mid) ==
    \E k \in 1..Len(cls[cb]) :
        /\ cls[cb][k].mid = mid
        /\ cls[cb][k].channel = sent[mid].channel
        /\ cls[cb][k].data = sent[mid].data

\* The messages that leave the queue in a step: a loop gets one, or stop
\* discards them.  Every call for a message is made by the step that takes it
\* from the queue, so nothing is called with it afterwards.
LeavingTheBus ==
    {message_queue[k] : k \in {i \in 1..Len(message_queue) :
        \A j \in 1..Len(message_queue') :
            message_queue'[j].mid # message_queue[i].mid}}

\* When a message leaves the queue, every callback subscribed to its channel at
\* the moment of its publish call has been invoked with it.
RoundTripStep ==
    \A m \in LeavingTheBus :
        \A cb \in m.at_publish : CalledWith(calls', cb, m.mid)

\* C8 as stated.  Every callback subscribed to C at the moment of the publish
\* call of M is eventually invoked with (C, {sender, action, payload} of M):
\* it has been by the time M leaves the bus.
C8_RoundTrip == [][RoundTripStep]_vars

\* The messages a step takes from the queue for delivery.
NewlyDequeued == {dequeued'[k] : k \in (Len(dequeued) + 1)..Len(dequeued')}

\* A step in which a loop gets M from the queue calls every callback that is
\* subscribed to the channel of M at that moment with exactly (C, data of M).
DeliveryStep ==
    \A mid \in NewlyDequeued :
        \A cb \in Callbacks :
            ( /\ sent[mid].channel \in DOMAIN subscriptions
              /\ cb \in subscriptions[sent[mid].channel] )
            => /\ ~CalledWith(calls, cb, mid)
               /\ CalledWith(calls', cb, mid)

\* C8, amended.  For any channel C and any message M published with
\* MessageBus.publish that a delivery loop gets from the queue, every callback
\* subscribed to C at the moment the loop gets M is invoked with
\* (C, {sender, action, payload} of M).
C8_RoundTripAtDequeue == [][DeliveryStep]_vars

\* A message with two subscribers was delivered to both, each with its channel
\* and data.
C8_Witness ==
    /\ Len(dequeued) >= 1
    /\ CalledWith(calls, "cb1", dequeued[1])
    /\ CalledWith(calls, "cb2", dequeued[1])

\* A step calls cb only for a message published on a channel cb is subscribed to
\* at that moment, with that channel, and not a second time.
IsolatedStep ==
    \A cb \in Callbacks :
        \A k \in (Len(calls[cb]) + 1)..Len(calls'[cb]) :
            LET call == calls'[cb][k]
                C == sent[call.mid].channel
            IN  /\ C \in DOMAIN subscriptions
                /\ cb \in subscriptions[C]
                /\ call.channel = C
                /\ \A j \in 1..(k - 1) : calls'[cb][j].mid # call.mid

\* C9.  Channel isolation: a callback is invoked for a message M published on
\* channel C only if it is subscribed to C when M is delivered, a callback
\* subscribed only to other channels is never invoked for M, and a callback is
\* invoked at most once per published message.
C9_ChannelIsolation == [][IsolatedStep]_vars

\* A requests message was delivered to cb1 while cb2, subscribed to the
\* responses channel only, was not called.
C9_Witness ==
    /\ Len(dequeued) >= 1
    /\ sent[dequeued[1]].channel = REQUESTS
    /\ CalledWith(calls, "cb1", dequeued[1])
    /\ calls["cb2"] = <<>>
    /\ RESPONSES \in DOMAIN subscriptions
    /\ "cb2" \in subscriptions[RESPONSES]

\* C10.  Per-channel FIFO: of two messages published on the same channel, no
\* callback is invoked with the later one before the earlier one (message
\* numbers are the order of the publish calls).
C10_ChannelFifo ==
    \A cb \in Callbacks :
        \A i, j \in 1..Len(calls[cb]) :
            (i < j /\ calls[cb][i].channel = calls[cb][j].channel)
            => calls[cb][i].mid < calls[cb][j].mid

\* cb1 was invoked with two messages of one channel, the earlier one first.
C10_Witness ==
    /\ Len(calls["cb1"]) = 2
    /\ calls["cb1"][1].channel = calls["cb1"][2].channel
    /\ calls["cb1"][1].mid = 1
    /\ calls["cb1"][2].mid = 2

\* The callback tasks that have not finished: the loop that created each and
\* the message it was created for.
Unfinished ==
    {t \in [loop : 1..Len(loops), cb : Callbacks] :
        /\ t.cb \in DOMAIN loops[t.loop].tasks
        /\ loops[t.loop].tasks[t.cb] \in {"pending", "stopping"}}

\* The invocations in progress all belong to one message.
NoOverlap ==
    \A t, u \in Unfinished : loops[t.loop].mid = loops[u.loop].mid

\* A message is taken from the queue only when no invocation is in progress.
DequeueAfterFinish == NewlyDequeued # {} => Unfinished = {}

\* C11.  The delivery loop dequeues the next message only after every
\* subscriber invocation started for the current message has finished, and
\* invocations belonging to two different messages never overlap in time.
C11_OneMessageAtATime == [][DequeueAfterFinish]_vars /\ []NoOverlap

\* What a step does to loop l around a callback that raises: the raise leaves the
\* loop waiting for the other tasks, every subscriber of the message having
\* been called; when the gather completes the loop goes on to its next
\* iteration with the queue as it is; and the loop ends on the stop signal only.
RaiseIsolated(l) ==
    LET before == loops[l]
        after == loops'[l]
        raises == {cb \in DOMAIN before.tasks :
                      /\ before.tasks[cb] # "raised"
                      /\ cb \in DOMAIN after.tasks
                      /\ after.tasks[cb] = "raised"}
        raised == {cb \in DOMAIN before.tasks : before.tasks[cb] = "raised"}
    IN  /\ raises # {}
           => /\ after.pc = "gather"
              /\ after.mid = before.mid
              /\ \A cb \in DOMAIN before.tasks \ raises :
                    after.tasks[cb] = before.tasks[cb]
              /\ \A cb \in DOMAIN before.tasks : CalledWith(calls, cb, before.mid)
        /\ (raised # {} /\ after.pc # "gather")
           => /\ after.pc = "check"
              /\ message_queue' = message_queue
        /\ (before.pc # "done" /\ after.pc = "done") => stop_event

\* C12.  Subscriber failures are isolated: when one callback raises while
\* handling a message, every other subscriber of the channel has been invoked
\* for the same message and its task goes on, the delivery loop keeps running
\* (it ends on the stop signal only), and the messages queued behind stay queued
\* for the next iterations.
C12_FailureIsolated == [][\A l \in 1..Len(loops) : RaiseIsolated(l)]_vars

\* cb1 raised for a message that cb2, called with the same message, handled;
\* the loop is not stopped.
C12_Witness ==
    \E l \in 1..Len(loops) :
        /\ loops[l].pc = "gather"
        /\ DOMAIN loops[l].tasks = {"cb1", "cb2"}
        /\ loops[l].tasks["cb1"] = "raised"
        /\ loops[l].tasks["cb2"] = "returned"
        /\ CalledWith(calls, "cb2", loops[l].mid)
        /\ ~stop_event
        /\ message_queue # <<>>

\* The loop tasks that have not ended.
RunningLoops == {l \in 1..Len(loops) : loops[l].pc # "done"}

\* A start call on a bus that has a loop running creates no loop task and leaves
\* the subscription table and the queue alone.
StartIsNoOp == RunningLoops # {} => Len(loops') = Len(loops)

\* C13.  At most one delivery loop of the bus exists at any time, for any
\* interleaving of start and stop calls: a start call while a loop is running
\* creates no second loop.
C13_SingleLoop ==
    /\ [][StartIsNoOp]_vars
    /\ [](Cardinality(RunningLoops) <= 1)

\* A stop call returns in this step.
StopReturns == Len(stoppers') < Len(stoppers)

\* C14.  When MessageBus.stop returns on a running bus, the delivery loop has
\* terminated, no loop task is recorded and the delivery queue is empty, the
\* messages that were still queued having been delivered to nobody.
C14_StopStops ==
    [][StopReturns
       => /\ RunningLoops' = {}
          /\ loop_task' = NoTask
          /\ message_queue' = <<>>
          /\ dequeued' = dequeued
          /\ calls' = calls]_vars

\* C15.  No message published after the stop signal was raised is ever
\* delivered to a subscriber: while the stop event is still set, a step that
\* takes a message published with the event set from the queue calls no
\* callback with it.
C15_NothingAfterStop ==
    [][\A m \in LeavingTheBus :
          (m.after_stop /\ stop_event)
          => \A cb \in Callbacks : ~CalledWith(calls', cb, m.mid)]_vars


\* A stop call that can never return: it awaits a loop task (bus.py 77) that
\* is itself waiting, in gather (bus.py 174-175), for the callback task that
\* made the call.  The loop ends only after that callback ends, and the
\* callback ends only after stop returns.
CircularWait(i) ==
    /\ stoppers[i].by # Outside
    /\ stoppers[i].by.loop = stoppers[i].awaits
    /\ loops[stoppers[i].awaits].pc = "gather"
    /\ loops[stoppers[i].awaits].tasks[stoppers[i].by.cb] = "stopping"

\* C16.  MessageBus.stop never deadlocks, whichever task calls it (a
\* subscriber callback of the bus included): no stop call is ever waiting for
\* a delivery loop that is waiting for the caller of that stop.
C16_StopNeverDeadlocks == \A i \in 1..Len(stoppers) : ~CircularWait(i)


\* No channel of the table is mapped to an empty callback set.
NoEmptyEntry == \A ch \in DOMAIN subscriptions : subscriptions[ch] # {}

\* What unsubscribe(ch, cb) makes of the current table: the entry of ch is
\* removed when cb was its last callback, the other callbacks of ch stay
\* otherwise, and nothing changes when cb is not subscribed to ch.
UnsubscribeEffect ==
    \A ch \in BusChannels, cb \in Callbacks :
        LET before == Subscribers(subscriptions, ch)
            after == MessageBus_unsubscribe(subscriptions, ch, cb)
        IN  /\ cb \notin before => after = subscriptions
            /\ before = {cb} => /\ ch \notin DOMAIN after
                                /\ \A other \in DOMAIN subscriptions \ {ch} :
                                      /\ other \in DOMAIN after
                                      /\ after[other] = subscriptions[other]
            /\ (cb \in before /\ before # {cb})
               => /\ ch \in DOMAIN after
                  /\ after[ch] = before \ {cb}

\* C17.  After any sequence of subscribe and unsubscribe calls the subscription
\* table holds no channel mapped to an empty callback set; unsubscribing the
\* last callback of a channel removes the channel entry, and unsubscribing a
\* callback that is not subscribed leaves the table unchanged.
C17_NoEmptyChannel == NoEmptyEntry /\ UnsubscribeEffect

\* cb2 was called with a message of multicoder:responses, so it was subscribed
\* to that channel; it has been unsubscribed since, as the last callback of
\* the channel, while multicoder:requests still has its subscribers.
C17_Witness ==
    /\ \E i \in 1..Len(calls["cb2"]) : calls["cb2"][i].channel = RESPONSES
    /\ RESPONSES \notin DOMAIN subscriptions
    /\ REQUESTS \in DOMAIN subscriptions
    /\ subscriptions[REQUESTS] = {"cb1", "cb2"}


\* C18.  A failure inside one message handler does not stop an agent's receive
\* loop: whatever process_message raised and whatever inbound message could not
\* be decoded, the listen loop of every started agent is still running.
C18_ListenKeepsRunning == listening = Agents


\* The process messages of the demonstration that a delivery loop has taken
\* from the queue of the in-process bus.
DemoRequestsTaken ==
    {dequeued[k] : k \in {i \in 1..Len(dequeued) :
        /\ sent[dequeued[i]].channel = REQUESTS
        /\ sent[dequeued[i]].data.action = "process"}}

\* C19.  In the variant the demonstration driver assembles, a process message
\* published on the in-process bus channel multicoder:requests is dispatched
\* to the coordinator over that bus: once the delivery loop has taken it from
\* the queue, a subscriber of the bus has been called with it.
C19_DemoDispatch ==
    \A mid \in DemoRequestsTaken : \E cb \in Callbacks : CalledWith(calls, cb, mid)


\* C20.  The bus-bound client leaks no wait registration: after process_prompt
\* has returned for a prompt (response received, timeout, or an error), the
\* request id it generated is in neither _waiting_for_responses nor
\* _response_events.
C20_NoLeakedRegistration ==
    \A request_id \in cli.returned :
        /\ request_id \notin DOMAIN cli._waiting_for_responses
        /\ request_id \notin DOMAIN cli._response_events


\* What wait_for_response returned for an id that a notify was handled for
\* while the id was registered: the payload of that notify (of the latest one
\* if there were several), not the timeout.
NotifyNotLost ==
    \A request_id \in DOMAIN cli.outcome :
        request_id \in DOMAIN cli.heard
        => /\ ~cli.outcome[request_id].timed_out
           /\ cli.outcome[request_id].response = cli.heard[request_id].payload

\* The task of _handle_response in loop l runs in this step.
HandlerRuns(l) ==
    /\ loops[l].pc = "gather"
    /\ "_handle_response" \in DOMAIN loops[l].tasks
    /\ loops[l].tasks["_handle_response"] = "pending"
    /\ loops'[l].pc = "gather"
    /\ loops'[l].tasks["_handle_response"] = "returned"

\* A run of _handle_response on a notify that names an id that is not
\* registered changes nothing in the client.
UnregisteredIgnored ==
    \A l \in 1..Len(loops) :
        ( /\ HandlerRuns(l)
          /\ sent[loops[l].mid].data.payload.request_id
                \notin DOMAIN cli._waiting_for_responses )
        => cli' = cli

\* C21.  In the bus-bound client a notify whose request_id matches a registered
\* wait is never lost: handled before wait_for_response started waiting or
\* while it waits, wait_for_response returns that notify's payload and not a
\* timeout; a notify for an id that is not registered changes no client state.
C21_NotifyNotLost == [][UnregisteredIgnored]_vars /\ []NotifyNotLost

\* wait_for_response returned the payload of a notify that was handled after
\* send_request returned and before the wait began, and _handle_response was
\* also called with a notify for an id the client never generated.
C21_Witness ==
    /\ \E request_id \in DOMAIN cli.outcome :
          /\ request_id \in DOMAIN cli.heard
          /\ cli.heard[request_id].at = "sent"
          /\ ~cli.outcome[request_id].timed_out
    /\ \E k \in 1..Len(calls["_handle_response"]) :
          calls["_handle_response"][k].data.payload.request_id = Uuid(0)


\* The notifies naming the request of the broker-bound client that were
\* published after its send_request returned and before its
\* wait_for_response subscribed.
NotifiedBeforeSubscribe ==
    {k \in (multicoder.sent_at + 1)..multicoder.subscribed_at :
        Get(Get(responses[k].data, "payload", EmptyMap), "request_id", NoneVal)
            = multicoder.request_id}

\* C23.  The broker-bound client behaves as the bus-bound client does for the
\* same events: as MCPClient.wait_for_response returns the payload of a notify
\* handled between send_request and the wait, MultiCoderCLI.wait_for_response
\* returns the payload of a notify published after send_request returned and
\* before it subscribed, and not the timeout (a wait that polled for its
\* whole time is looked at, not one whose deadline had passed at the start).
C23_SameOutcome ==
    \A k \in NotifiedBeforeSubscribe :
        ( /\ multicoder.request_id \in DOMAIN multicoder.outcome
          /\ multicoder.polls = MaxPolls )
        => /\ ~multicoder.outcome[multicoder.request_id].timed_out
           /\ multicoder.outcome[multicoder.request_id].response
                = responses[k].data.payload


\* The notifies for the request the broker-bound client is on that were on
\* multicoder:responses by the time of its last get_message.
ArrivedBeforeDeadline ==
    {k \in (multicoder.sent_at + 1)..(multicoder.subscribed_at + multicoder.read) :
        /\ k <= Len(responses)
        /\ Get(Get(responses[k].data, "payload", EmptyMap), "request_id", NoneVal)
               = multicoder.request_id}

\* C22. Every external wait returns the matching notify payload if one arrived
\* before the deadline and the timeout outcome otherwise: a
\* MultiCoderCLI.wait_for_response that polled for its whole time and returned
\* None had no notify for its request on the responses channel by its last
\* poll.
C22_WaitOutcome ==
    ( /\ multicoder.pc = "idle"
      /\ multicoder.request_id \in DOMAIN multicoder.outcome
      /\ multicoder.polls = MaxPolls
      /\ multicoder.outcome[multicoder.request_id].timed_out )
    => ArrivedBeforeDeadline = {}


\* The components in a sequence of started or stopped components.
Components_of(seq) == {seq[k] : k \in 1..Len(seq)}

\* How many times component c occurs in seq.
Times(seq, c) == Cardinality({k \in 1..Len(seq) : seq[k] = c})

IsPrefix(s, t) == Len(s) <= Len(t) /\ \A k \in 1..Len(s) : s[k] = t[k]

\* The two orders of run_all: what has started so far begins the start order,
\* what has stopped so far begins the stop order (so nothing is stopped twice
\* and no agent after the bus).
RunAllOrders ==
    /\ IsPrefix(launcher.started,
                <<"bus", "coordinator", "code_generator", "code_validator">>)
    /\ IsPrefix(launcher.stopped,
                <<"code_validator", "code_generator", "coordinator", "bus">>)

\* C24. The launcher for all components starts the bus, the coordinator, the
\* generator and the validator in that order, stops them in the order
\* validator, generator, coordinator, bus (so no agent after the bus), and when
\* it has exited every component it started has been stopped exactly once.
C24_StartStopOrder ==
    launcher.component = "all"
    => /\ RunAllOrders
       /\ launcher.pc = "exited"
          => \A c \in Components_of(launcher.started) :
                 Times(launcher.stopped, c) = 1

\* C25. Graceful shutdown of whatever was started: a launcher that has exited,
\* after an interruption or a failure at any point, has stopped every
\* component it had started (the bus and each agent).
C25_GracefulShutdown ==
    launcher.pc = "exited"
    => Components_of(launcher.started) \subseteq Components_of(launcher.stopped)


-----------------------------------------------------------------------------
(* Claims about the generator and the validator.                            *)

\* The prompt contains, in one language and in any letter case, the word for
\* "reverse" and later the word for "string".
AsksReversal(prompt) ==
    \E i, j \in 1..Len(prompt) :
        /\ i < j
        /\ \/ Lower(prompt[i]) \in InverseWords /\ Lower(prompt[j]) \in ChaineWords
           \/ Lower(prompt[i]) = "reverse" /\ Lower(prompt[j]) = "string"

\* C26. Generator template selection: handed a generate message with a
\* request_id and a prompt, the generator publishes one generated message on
\* multicoder:generator with the same request_id, whose code is the reversal
\* function when the prompt contains the words for "reverse" then "string" in
\* either language and any case, and the generic placeholder otherwise.
C26_TemplateSelection ==
    agent = "code_generator"
    => out = <<AgentPublish("code_generator", GENERATOR, "generated",
                            [request_id |-> last.data.payload.request_id,
                             code |-> IF AsksReversal(last.data.payload.prompt)
                                      THEN ReverseCode
                                      ELSE GenericCode])>>

\* The validated message the validator published for the validate message it
\* was handed last.
Validated == out[1].data.payload

ValidatorAnswered ==
    /\ agent = "code_validator"
    /\ Len(out) = 1
    /\ out[1].channel = VALIDATOR
    /\ out[1].data.action = "validated"

\* The validator has been handed a validate message with a code that is not
\* the empty text (which it drops).
ValidatorHandedCode ==
    /\ agent = "code_validator"
    /\ last.data.payload.code # EmptyCode

\* C28. For every code input the validator answers with one validated
\* message that carries the request_id of the validate message, and whose
\* is_valid flag is true exactly when its issue list is empty.
C28_ValidIffNoIssue ==
    ValidatorHandedCode
    => /\ ValidatorAnswered
       /\ Validated.request_id = last.data.payload.request_id
       /\ Validated.is_valid <=> (Validated.issues = <<>>)

C28_Witness ==
    /\ ValidatorAnswered
    /\ ~Validated.is_valid
    /\ Len(Validated.issues) = 3

\* C29. Syntax gate: for code that does not parse the verdict is is_valid =
\* false with exactly one issue, the syntax error, whatever the lines of the
\* code are (too long, wildcard import).
C29_SyntaxGate ==
    ( /\ agent = "code_validator"
      /\ ~last.data.payload.code.parses )
    => /\ ValidatorAnswered
       /\ ~Validated.is_valid
       /\ Len(Validated.issues) = 1
       /\ Validated.issues[1].kind = "syntax_error"

C29_Witness ==
    /\ ValidatorAnswered
    /\ ~last.data.payload.code.parses
    /\ \E i \in 1..Len(last.data.payload.code.lines) :
          /\ last.data.payload.code.lines[i].len > 79
          /\ last.data.payload.code.lines[i].wildcard

\* The line-length issues of the verdict that name line i.
LineLengthIssues(i) ==
    {k \in 1..Len(Validated.issues) :
        /\ Validated.issues[k].kind = "line_too_long"
        /\ Validated.issues[k].line = i}

\* C30. Line-length check: for code that parses, the issue list has exactly
\* one line-length issue for each line longer than 79, naming its 1-based
\* index and its length, and none for a line of length 79 or less (nor for a
\* line the code does not have).
C30_LineLength ==
    ( /\ ValidatorHandedCode
      /\ last.data.payload.code.parses )
    => /\ ValidatorAnswered
       /\ LET lines == last.data.payload.code.lines
          IN  /\ \A i \in 1..Len(lines) :
                    IF lines[i].len > 79
                    THEN /\ Cardinality(LineLengthIssues(i)) = 1
                         /\ \A k \in LineLengthIssues(i) :
                               Validated.issues[k].length = lines[i].len
                    ELSE LineLengthIssues(i) = {}
              /\ \A k \in 1..Len(Validated.issues) :
                    Validated.issues[k].kind = "line_too_long"
                    => Validated.issues[k].line \in 1..Len(lines)

C30_Witness ==
    /\ ValidatorAnswered
    /\ last.data.payload.code.parses
    /\ LET lines == last.data.payload.code.lines
       IN  /\ Len(lines) = 2
           /\ lines[1].len = 79
           /\ lines[2].len = 80
           /\ LineLengthIssues(1) = {}
           /\ LineLengthIssues(2) # {}


\* The request ids submitted with the prompt "reverse a string".
ReverseRequests ==
    {submitted[k].request_id :
        k \in {n \in 1..Len(submitted) : submitted[n].prompt = PromptReverse}}

\* C27. End-to-end scenario: a process request with the prompt "reverse a
\* string" that went through the coordinator, the generator and the
\* validator ends in a notify with status completed whose result holds the
\* source of the reversal function and valid: true.
C27_EndToEnd ==
    \A k \in 1..Len(responses) :
        LET payload == responses[k].data.payload
        IN  payload.request_id \in ReverseRequests
            => /\ responses[k].data.action = "notify"
               /\ payload.status = "completed"
               /\ payload.result.code = ReverseCode
               /\ payload.result.valid


-----------------------------------------------------------------------------
(* Further claims about the coordinator.                                    *)

\* The notify messages the coordinator published in its latest invocation.
NotifiesOut ==
    IF agent = "coordinator"
    THEN {k \in 1..Len(out) : out[k].data.action = "notify"}
    ELSE {}

\* C33. Every notify the coordinator publishes has status completed or failed
\* (never processing or validating), status completed exactly when
\* result.valid is true, and an issues field in result exactly when the status
\* is failed.
C33_NotifyShape ==
    \A k \in NotifiesOut :
        LET payload == out[k].data.payload
        IN  /\ payload.status \in {"completed", "failed"}
            /\ (payload.status = "completed") <=> (payload.result.valid = TRUE)
            /\ ("issues" \in DOMAIN payload.result) <=> (payload.status = "failed")

\* A validated message without is_valid and without issues was answered with a
\* notify.
C33_Witness ==
    /\ NotifiesOut # {}
    /\ "is_valid" \notin DOMAIN PayloadOf(last)
    /\ "issues" \notin DOMAIN PayloadOf(last)

\* The process messages handled so far that the coordinator accepted for id:
\* on multicoder:requests, with that request_id and a non-empty prompt.
AcceptedProcess(id) ==
    SelectSeq(handled,
              LAMBDA e : /\ e.channel = REQUESTS
                         /\ ActionOf(e) = "process"
                         /\ RequestIdOf(e) = id
                         /\ ~Falsy(PayloadOf(e), "prompt", EmptyPrompt))

\* C34. For every sequence of handled messages, duplicated, stale and
\* reordered ones included, the notifies published for a request id are never
\* more than the process messages accepted for it (at most one for an id
\* submitted once).
C34_NotifyPerAccepted ==
    \A id \in Ids : Len(OnResponses(id)) <= Len(AcceptedProcess(id))

\* r1 was submitted once and then validated twice: one notify.
C34_Witness ==
    /\ Len(AcceptedProcess("r1")) = 1
    /\ Len(OnResponses("r1")) = 1
    /\ Len(SelectSeq(Naming(handled, "r1"),
                     LAMBDA e : ActionOf(e) = "validated")) = 2

\* C35. Every notify carries in result.code the code of a generated message
\* handled for the same request id since the record was created: the record
\* the notify was built from had a code put by _handle_generated_code, and the
\* notify's code is that code and not the empty text.
C35_NotifyCarriesCode ==
    \A k \in NotifiesOut :
        LET payload == out[k].data.payload
        IN  /\ "code" \in DOMAIN prev[payload.request_id]
            /\ payload.result.code # EmptyCode
            /\ payload.result.code = prev[payload.request_id]["code"]


\* The (channel, action) pairs each agent handles.
HandledPairs ==
    [coordinator |-> {<<REQUESTS, "process">>, <<GENERATOR, "generated">>,
                      <<VALIDATOR, "validated">>},
     code_generator |-> {<<GENERATOR, "generate">>},
     code_validator |-> {<<VALIDATOR, "validate">>}]

\* Agent a takes from its pubsub a message whose (channel, action) pair it
\* does not handle.
TakesUnhandled(a) ==
    /\ inbox[a] # <<>>
    /\ inbox'[a] = Tail(inbox[a])
    /\ <<Head(inbox[a]).channel, ActionOf(Head(inbox[a]))>> \notin HandledPairs[a]

\* Such a step publishes nothing and changes no state: only the message taken
\* leaves the pubsub.
UnhandledIsNoOp ==
    \A a \in Agents :
        (a \in listening /\ TakesUnhandled(a))
        => /\ published' = published
           /\ pending_requests' = pending_requests
           /\ responses' = responses
           /\ listening' = listening
           /\ \A b \in Agents \ {a} : inbox'[b] = inbox[b]

\* The number of messages published so far with this action that name id.
PublishedFor(id, action) ==
    LET naming == {e \in DOMAIN published :
                      ActionOf(e) = action /\ RequestIdOf(e) = id}
    IN  BagCardinality([e \in naming |-> published[e]])

PipelineActions == {"generate", "generated", "validate", "validated", "notify"}

\* No agent has a message left to take.
Quiescent == \A a \in Agents : inbox[a] = <<>>

\* Each submitted request (its id is unique) has caused at most one message of
\* each kind, none when it was not accepted, and exactly one of each once the
\* system is quiescent.
OneOfEach ==
    \A i \in 1..Len(submitted) :
        \A action \in PipelineActions :
            LET n == PublishedFor(submitted[i].request_id, action)
            IN  /\ n <= 1
                /\ ~Accepted(i) => n = 0
                /\ (Accepted(i) /\ Quiescent) => n = 1

\* C36. An agent that receives a message whose (channel, action) pair it does
\* not handle, the echo of its own publication in particular, publishes
\* nothing and changes no state; so an accepted request with a unique id causes
\* exactly one generate, generated, validate, validated and notify, after
\* which nothing is left to handle.
C36_EchoIgnored == [][UnhandledIsNoOp]_vars /\ []OneOfEach

\* Two accepted requests went through the pipeline, every echo was taken and
\* dropped, and the system is quiescent.
C36_Witness ==
    /\ Len(submitted) = 2
    /\ Accepted(1)
    /\ Accepted(2)
    /\ Quiescent
    /\ BagCardinality(published) = 10


-----------------------------------------------------------------------------
(* Further claims about the in-process bus.                                 *)

\* The body of callback cb begins in this step, for the message loop l holds.
BeginsIn(l, cb) ==
    /\ cb \in DOMAIN loops[l].tasks
    /\ loops[l].tasks[cb] = "pending"
    /\ l \in 1..Len(loops')
    /\ cb \in DOMAIN loops'[l].tasks
    /\ loops'[l].tasks[cb] = "running"

\* A callback begins only while it is subscribed to the channel of the
\* message: it was subscribed when the message was dequeued, so otherwise an
\* unsubscribe(channel, cb) has returned since and no subscribe followed it.
BeginsSubscribed ==
    \A l \in 1..Len(loops) :
        \A cb \in Callbacks :
            BeginsIn(l, cb)
            => cb \in Subscribers(subscriptions, sent[loops[l].mid].channel)

\* C37. Once unsubscribe(channel, cb) has returned, cb is not invoked again for
\* a message on that channel until it is subscribed again, in every
\* interleaving of unsubscribe with the delivery loop, the fan-out of one
\* message included.
C37_NoCallAfterUnsubscribe == [][BeginsSubscribed]_vars


-----------------------------------------------------------------------------
(* The wrapper of the broker's client (src/db/redis_client.py).  The broker *)
(* is the environment: each awaited call on it returns or raises.           *)

MaxReceived == 2

\* connect (44-54): the client object is assigned before the ping, and the
\* except branch logs and re-raises without resetting it.
RedisClient_connect(r, ping) ==
    [r EXCEPT !.client = "Redis",
              !.verified = (ping = "pong"),
              !.closed = FALSE,
              !.raised = IF ping = "pong" THEN "none" ELSE "RedisError"]

\* `if not self.client: await self.connect()` (81-82, 110-111).
ConnectIfNone(r, ping) ==
    IF r.client = "None" THEN RedisClient_connect(r, ping)
    ELSE [r EXCEPT !.raised = "none"]

\* What the broker is handed through: a client whose ping succeeded or not.
HandedThrough(r) == IF r.verified THEN "verified" ELSE "unverified"

RedisConnects ==
    /\ \E ping \in {"pong", "RedisError"} : redis' = RedisClient_connect(redis, ping)
    /\ UNCHANGED <<coordVars, pipeVars, busVars, demo, cli, multicoder, launcher, loggers>>

\* disconnect (56-61): closes the client, which stays in self.client.
RedisDisconnects ==
    /\ redis.client # "None"
    /\ redis' = [redis EXCEPT !.closed = TRUE, !.raised = "none"]
    /\ UNCHANGED <<coordVars, pipeVars, busVars, demo, cli, multicoder, launcher, loggers>>

\* publish (63-97): connects when client is None, serialises, publishes.
RedisPublishes ==
    /\ \E ping \in {"pong", "RedisError"},
          payload \in {"serialisable", "TypeError"},
          result \in {"delivered", "RedisError"} :
          LET c == ConnectIfNone(redis, ping)
          IN  redis' = IF c.raised # "none" THEN c
                       ELSE IF payload = "TypeError" THEN [c EXCEPT !.raised = "TypeError"]
                       ELSE IF result = "RedisError" THEN [c EXCEPT !.raised = "RedisError"]
                       ELSE [c EXCEPT !.handed = HandedThrough(c)]
    /\ UNCHANGED <<coordVars, pipeVars, busVars, demo, cli, multicoder, launcher, loggers>>

\* subscribe up to its loop (110-117): connects when client is None (outside
\* the try: a failure leaves subscribe with no handle created), creates the
\* handle, subscribes it inside the try.
RedisSubscribes ==
    /\ redis.pc \in {"idle", "exited"}
    /\ \E ping \in {"pong", "RedisError"},
          result \in {"subscribed", "RedisError", "CancelledError"} :
          LET c == [ConnectIfNone(redis, ping) EXCEPT !.error = "none",
                                                      !.propagated = "none",
                                                      !.handle = "none"]
          IN  redis' = IF c.raised # "none"
                       THEN [c EXCEPT !.pc = "exited", !.propagated = c.raised]
                       ELSE IF result = "subscribed"
                       THEN [c EXCEPT !.pc = "listening", !.handle = "subscribed",
                                      !.handed = HandedThrough(c)]
                       ELSE [c EXCEPT !.pc = "except", !.handle = "created",
                                      !.error = result]
    /\ UNCHANGED <<coordVars, pipeVars, busVars, demo, cli, multicoder, launcher, loggers>>

\* One turn of `async for message in pubsub.listen()` (119-127): the wait is
\* cancelled or fails, the message is not of type "message", its decoding
\* raises, the callback raises or is cancelled, or the callback returns.
RedisReceives ==
    /\ redis.pc = "listening"
    /\ redis.received < MaxReceived
    /\ \E outcome \in {"returned", "ignored", "ConnectionError", "CancelledError",
                       "JSONDecodeError", "callback raised"} :
          redis' = IF outcome \in {"returned", "ignored"}
                   THEN [redis EXCEPT !.received = @ + 1]
                   ELSE [redis EXCEPT !.received = @ + 1, !.pc = "except",
                                      !.error = outcome]
    /\ UNCHANGED <<coordVars, pipeVars, busVars, demo, cli, multicoder, launcher, loggers>>

\* The two except branches (129-139), alike: await pubsub.unsubscribe(), await
\* pubsub.close(), raise.  An await that raises leaves the branch at once.
RedisExcept ==
    /\ redis.pc = "except"
    /\ \E unsubscribe \in {"returned", "RedisError"}, close \in {"returned", "RedisError"} :
          redis' = IF unsubscribe # "returned"
                   THEN [redis EXCEPT !.pc = "exited",
                                      !.propagated = "unsubscribe raised"]
                   ELSE IF close # "returned"
                   THEN [redis EXCEPT !.pc = "exited", !.handle = "unsubscribed",
                                      !.propagated = "close raised"]
                   ELSE [redis EXCEPT !.pc = "exited", !.handle = "closed",
                                      !.propagated = redis.error]
    /\ UNCHANGED <<coordVars, pipeVars, busVars, demo, cli, multicoder, launcher, loggers>>

RedisNext ==
    \/ RedisConnects
    \/ RedisDisconnects
    \/ RedisPublishes
    \/ RedisSubscribes
    \/ RedisReceives
    \/ RedisExcept

RedisSpec == Init /\ [][RedisNext]_vars

\* C31. RedisClient.subscribe releases its handle on every abnormal exit: when
\* the receive loop is cancelled, or the callback or the decoding raises, the
\* handle has been unsubscribed and closed when subscribe has raised, and what
\* it has raised is the error that was caught.
C31_HandleReleased ==
    (redis.pc = "exited" /\ redis.handle # "none")
    => (redis.handle = "closed" /\ redis.propagated = redis.error)

\* C39. The broker is handed a message or a subscription only through a client
\* whose ping succeeded in connect: a connect that failed is not taken for a
\* connection by a later publish or subscribe.
C39_VerifiedClient == redis.handed # "unverified"


-----------------------------------------------------------------------------
(* The logging helper (src/utils/logging.py) over the loggers of logging.   *)

MaxConfigures == 2

\* The component names this repository configures a logger for
\* (cli/__main__.py 50, cli/mcp_client.py 42).
LoggerNames == {"multicoder", "multicoder.cli"}

\* The level arguments: names in either case, and one logging does not know.
LevelNames == {"DEBUG", "info", "WARNING", "verbose"}

\* The format arguments: None, or a format string.
LogFormats == {NoneVal, "%(message)s"}

\* getattr(logging, level.upper(), logging.INFO) (logging.py 27).
NumericLevel(level) ==
    CASE level \in {"DEBUG", "debug"} -> 10
      [] level \in {"INFO", "info"} -> 20
      [] level \in {"WARNING", "warning"} -> 30
      [] OTHER -> 20

\* logging.getLogger(name): the logger of that name, created on first use
\* with level NOTSET and no handler.
GetLogger(dict, name) ==
    IF name \in DOMAIN dict THEN dict[name] ELSE [level |-> 0, handlers |-> <<>>]

\* A mutation of configure_logger: the handler is added on every call.
configure_logger_always(dict, logger_name, level, log_format) ==
    LET logger == GetLogger(dict, logger_name)
        format == IF log_format = NoneVal
                  THEN "%(asctime)s - %(name)s - %(levelname)s - %(message)s"
                  ELSE log_format
    IN  Put(dict, logger_name,
            [level |-> NumericLevel(level),
             handlers |-> Append(logger.handlers,
                                 [stream |-> "stdout", format |-> format])])

\* configure_logger (11-44): sets the level, and adds one handler on standard
\* output when the logger has none.  The result is logging's table with the
\* logger in it (the logger returned is the table's entry).
configure_logger(dict, logger_name, level, log_format) ==
    LET logger == GetLogger(dict, logger_name)
        format == IF log_format = NoneVal
                  THEN "%(asctime)s - %(name)s - %(levelname)s - %(message)s"
                  ELSE log_format
    IN  Put(dict, logger_name,
            [level |-> NumericLevel(level),
             handlers |-> IF logger.handlers = <<>>
                          THEN <<[stream |-> "stdout", format |-> format]>>
                          ELSE logger.handlers])

\* The loggers a record of logger `name` is handed to: the logger and, records
\* propagating, those of its ancestors that exist ("multicoder" for
\* "multicoder.cli"; the root logger has no handler here).
HandlingLoggers(dict, name) ==
    {n \in DOMAIN dict : n = name \/ (name = "multicoder.cli" /\ n = "multicoder")}

RECURSIVE HandlerCount(_, _)
HandlerCount(dict, names) ==
    IF names = {} THEN 0
    ELSE LET n == CHOOSE x \in names : TRUE
         IN  Len(dict[n].handlers) + HandlerCount(dict, names \ {n})

\* A component calls configure_logger(logger_name, level, log_format).
Configures ==
    /\ \E logger_name \in LoggerNames, level \in LevelNames, log_format \in LogFormats :
          /\ Get(loggers.configured, logger_name, 0) < MaxConfigures
          /\ loggers' = [loggers EXCEPT
                 !.loggerDict = configure_logger(@, logger_name, level, log_format),
                 !.configured = Put(@, logger_name, Get(@, logger_name, 0) + 1)]
    /\ UNCHANGED <<coordVars, pipeVars, busVars, demo, cli, multicoder, launcher, redis>>

\* A component logs a message through the logger it was returned: the record
\* is made when the level of the logger lets it through, and every handler of
\* the handling loggers writes it.
Logs ==
    /\ \E name \in DOMAIN loggers.loggerDict, levelno \in {10, 20, 40} :
          /\ levelno >= loggers.loggerDict[name].level
          /\ loggers' = [loggers EXCEPT
                 !.emitted = [name |-> name, levelno |-> levelno,
                              times |-> HandlerCount(loggers.loggerDict,
                                            HandlingLoggers(loggers.loggerDict, name))]]
    /\ UNCHANGED <<coordVars, pipeVars, busVars, demo, cli, multicoder, launcher, redis>>

LoggingNext == Configures \/ Logs

LoggingSpec == Init /\ [][LoggingNext]_vars

\* Only logger `name` has been configured.
OnlyConfigured(name) == DOMAIN loggers.configured = {name}

====
